---- MODULE Spec2Model ----
(***************************************************************************)
(* Verification model of the conversational energy assistant backend:      *)
(*   - RateLimiter            (app/core/rate_limiter.py)                    *)
(*   - FollowUpMemory         (app/ai/memory.py)                            *)
(*   - AIService.chat and the chat endpoint (app/ai/service.py, api.py)     *)
(* Three specifications share the state:                                    *)
(*   SpecLimiter : threads calling the rate limiter concurrently            *)
(*   SpecMemory  : the follow-up memory driven call by call                 *)
(*   Spec        : chat turns through endpoint, service, memory, limiter    *)
(***************************************************************************)
EXTENDS Integers, Sequences, FiniteSets, TLC

VARIABLES
    now,        \* time.time(), in seconds
    users,      \* RateLimiter._users : user id -> reference to a _Counters object (0 = absent)
    objs,       \* the _Counters objects, by reference
    thr,        \* threads inside the rate limiter: position, arguments, locals
    adm,        \* history: per user, the calls admitted and tokens reserved in the latest window
    store,      \* FollowUpMemory._store : user id -> FollowUpState (or absent)
    got,        \* FollowUpMemory: result of the latest get_if_fresh / kind of the latest call
    turn,       \* AIService.chat: the turn in progress
    agg         \* a component called on its own: its data, the call made and its result

vars == <<now, users, objs, thr, adm, store, got, turn, agg>>

----------------------------------------------------------------------------
(* Bounds of the model *)

MaxTicks == 3            \* chat and memory: the clock advances at most this many times
MaxRollovers == 1        \* limiter threads: the window rolls over at most this many times
requests_per_minute == 2 \* RateLimiter.requests_per_minute (a setting)
tokens_per_minute == 300 \* RateLimiter.tokens_per_minute (a setting)

(* Program constants *)

WindowSeconds == 60      \* fixed window of the rate limiter
TickSeconds == WindowSeconds   \* the model's clock advances one window at a time

Users == {1, 2}          \* user ids
Threads == {1, 2}        \* threads calling the rate limiter concurrently
ObjIds == 1..(Cardinality(Users) + Cardinality(Threads))
None == 0                \* an absent reference

----------------------------------------------------------------------------
(* RateLimiter *)

\* _Counters(window_start_minute, requests, tokens); live = the object is referenced
Counters(w, r, k) == [live |-> TRUE, window_start_minute |-> w, requests |-> r, tokens |-> k]
Free == [live |-> FALSE, window_start_minute |-> 0, requests |-> 0, tokens |-> 0]

_current_minute(t) == t \div WindowSeconds

Max(a, b) == IF a >= b THEN a ELSE b

\* the smallest reference not in use
NewRef(o) == CHOOSE i \in ObjIds : ~o[i].live /\ \A j \in ObjIds : ~o[j].live => i <= j

\* _get_user_counters, the part under _users_lock, with now_min read before the lock:
\* returns the new _users, the new objects and the reference c handed to the caller
_get_user_counters(us, o, user_id, now_min) ==
    IF us[user_id] = None \/ o[us[user_id]].window_start_minute # now_min
    THEN LET c == NewRef(o)
         IN  [users |-> [us EXCEPT ![user_id] = c],
              objs  |-> [o EXCEPT ![c] = Counters(now_min, 0, 0)],
              c     |-> c]
    ELSE [users |-> us, objs |-> o, c |-> us[user_id]]

\* the refresh at the head of both locked bodies
Refresh(cnt, now_min) ==
    IF cnt.window_start_minute # now_min THEN Counters(now_min, 0, 0) ELSE cnt

AllowBodyReserveFirst(cnt, now_min, requested_tokens) ==
    LET c1 == Refresh(cnt, now_min)
        c2 == [c1 EXCEPT !.requests = IF @ + 1 > requests_per_minute THEN @ ELSE @ + 1]
    IN  IF c1.requests + 1 > requests_per_minute THEN [cnt |-> c1, ret |-> FALSE]
        ELSE IF c1.tokens + requested_tokens > tokens_per_minute THEN [cnt |-> c2, ret |-> FALSE]
        ELSE [cnt |-> [c2 EXCEPT !.tokens = @ + requested_tokens], ret |-> TRUE]

\* allow_request, the body under _users_lock, on the object c refers to
AllowBody(cnt, now_min, requested_tokens) ==
    LET c1 == Refresh(cnt, now_min)
    IN  IF c1.requests + 1 > requests_per_minute THEN [cnt |-> c1, ret |-> FALSE]
        ELSE IF c1.tokens + requested_tokens > tokens_per_minute THEN [cnt |-> c1, ret |-> FALSE]
        ELSE [cnt |-> [c1 EXCEPT !.requests = @ + 1, !.tokens = @ + requested_tokens],
              ret |-> TRUE]

\* add_usage, the body under _users_lock
AddUsageBody(cnt, now_min, delta) ==
    LET c1 == Refresh(cnt, now_min)
        new_tokens == c1.tokens + delta
    IN  [c1 EXCEPT !.tokens = IF new_tokens < 0 THEN 0
                              ELSE IF new_tokens > tokens_per_minute THEN tokens_per_minute
                              ELSE new_tokens]

\* objects no longer referenced by _users or by a thread's local c are collected
Collect(o, us, th) ==
    [i \in ObjIds |->
        IF (\E u \in Users : us[u] = i) \/ (\E t \in Threads : th[t].c = i)
        THEN o[i] ELSE Free]

----------------------------------------------------------------------------
(* Threads inside the rate limiter (SpecLimiter) *)

\* values callers pass as token counts (requested, actual, allocated)
LimiterUsers == {1}             \* the user the threads call the limiter for
AllowInputs == {150, 450}       \* requested_tokens
UsageInputs == {0, 150}         \* actual_tokens, allocated_tokens

Zero == [window_start_minute |-> 0, requests |-> 0, tokens |-> 0]
Snap(cnt) == [window_start_minute |-> cnt.window_start_minute,
              requests |-> cnt.requests, tokens |-> cnt.tokens]

\* a thread outside the limiter
IdleThread == [pc |-> "idle", op |-> "none", user_id |-> 1, arg |-> 0, now_min |-> 0,
               c |-> None, ret |-> "none"]

\* history of admissions: the window of the latest admission and what was admitted in it
Admit(a, now_min, requested_tokens) ==
    IF a.window_start_minute = now_min
    THEN [a EXCEPT !.requests = @ + 1, !.tokens = @ + requested_tokens]
    ELSE [window_start_minute |-> now_min, requests |-> 1, tokens |-> requested_tokens]

\* a thread enters allow_request(user_id, requested_tokens)
CallAllowRequest(t) ==
    /\ thr[t].pc = "idle"
    /\ \E u \in LimiterUsers, requested_tokens \in AllowInputs :
          thr' = [thr EXCEPT ![t] = [IdleThread EXCEPT !.pc = "read_minute",
                     !.op = "allow_request", !.user_id = u, !.arg = Max(0, requested_tokens)]]
    /\ UNCHANGED <<agg, now, users, objs, adm, store, got, turn>>

\* a thread enters add_usage(user_id, actual_tokens, allocated_tokens);
\* it returns at once when actual == allocated
CallAddUsage(t) ==
    /\ thr[t].pc = "idle"
    /\ \E u \in LimiterUsers, actual_tokens \in UsageInputs, allocated_tokens \in UsageInputs :
          LET actual == Max(0, actual_tokens)
              allocated == Max(0, allocated_tokens)
          IN  thr' = [thr EXCEPT ![t] =
                        IF actual = allocated
                        THEN [IdleThread EXCEPT !.pc = "returned", !.op = "add_usage",
                                  !.user_id = u]
                        ELSE [IdleThread EXCEPT !.pc = "read_minute", !.op = "add_usage",
                                  !.user_id = u, !.arg = actual - allocated]]
    /\ UNCHANGED <<agg, now, users, objs, adm, store, got, turn>>

\* _get_user_counters: now_min = self._current_minute(), before the lock is taken
ReadMinute(t) ==
    /\ thr[t].pc = "read_minute"
    /\ thr' = [thr EXCEPT ![t].now_min = _current_minute(now), ![t].pc = "get_counters"]
    /\ UNCHANGED <<agg, now, users, objs, adm, store, got, turn>>

\* _get_user_counters: the block under _users_lock
GetUserCounters(t) ==
    /\ thr[t].pc = "get_counters"
    /\ LET r == _get_user_counters(users, objs, thr[t].user_id, thr[t].now_min)
           th == [thr EXCEPT ![t].c = r.c, ![t].pc = "locked_body"]
       IN  /\ users' = r.users
           /\ thr' = th
           /\ objs' = Collect(r.objs, r.users, th)
    /\ UNCHANGED <<agg, now, adm, store, got, turn>>

\* allow_request: the block under _users_lock, then return
AllowRequestBody(t) ==
    /\ thr[t].pc = "locked_body"
    /\ thr[t].op = "allow_request"
    /\ LET now_min == _current_minute(now)
           c == thr[t].c
           r == AllowBody(objs[c], now_min, thr[t].arg)
       IN  /\ thr' = [thr EXCEPT ![t].pc = "returned", ![t].now_min = 0,
                                   ![t].ret = IF r.ret THEN "True" ELSE "False"]
           /\ objs' = [objs EXCEPT ![c] = r.cnt]
           /\ adm' = IF r.ret
                     THEN [adm EXCEPT ![thr[t].user_id] = Admit(@, now_min, thr[t].arg)]
                     ELSE adm
    /\ UNCHANGED <<agg, now, users, store, got, turn>>

\* add_usage: the block under _users_lock, then return
AddUsageLocked(t) ==
    /\ thr[t].pc = "locked_body"
    /\ thr[t].op = "add_usage"
    /\ LET now_min == _current_minute(now)
           c == thr[t].c
           cnt == AddUsageBody(objs[c], now_min, thr[t].arg)
       IN  /\ thr' = [thr EXCEPT ![t].pc = "returned", ![t].now_min = 0]
           /\ objs' = [objs EXCEPT ![c] = cnt]
    /\ UNCHANGED <<agg, now, users, adm, store, got, turn>>

\* the call returns to its caller; the local c goes out of scope
Return(t) ==
    /\ thr[t].pc = "returned"
    /\ LET th == [thr EXCEPT ![t] = IdleThread]
       IN  /\ thr' = th
           /\ objs' = Collect(objs, users, th)
    /\ UNCHANGED <<agg, now, users, adm, store, got, turn>>

\* the clock advances
TickLimiter ==
    /\ now + TickSeconds <= MaxRollovers * TickSeconds
    /\ now' = now + TickSeconds
    /\ UNCHANGED <<agg, users, objs, thr, adm, store, got, turn>>

----------------------------------------------------------------------------
(* FollowUpMemory *)

ttl_seconds == 120       \* MemoryManager: FollowUpMemory(ttl_seconds=120)
ttl == Max(5, ttl_seconds)

\* Python values of the slots
NoneList == <<"None">>   \* None in a slot that holds a list of device names
DeviceLists == {<<>>, <<"AC">>, <<"Heater">>}
Times == {"today", "yesterday"}     \* TimeRangeParams, by label; "None" when unset
RankPairs == {<<"None", 0>>, <<"highest", 1>>, <<"highest", 2>>}   \* (rank, rank_num); 0 = None
RankedLists == {<<>>, <<"Heater", "AC">>}

\* list(devices or [])
OrEmpty(devices) == IF devices = NoneList THEN <<>> ELSE devices
\* "not devices": None or the empty list
Falsy(devices) == devices = NoneList \/ devices = <<>>

NoState == [present |-> FALSE, ts |-> 0, intent |-> "none", devices |-> <<>>, rank |-> "None",
            rank_num |-> 0, ranked_devices |-> <<>>, time_context |-> "None"]

FollowUpState(ts, intent, devices, rank, rank_num, ranked_devices, time_context) ==
    [present |-> TRUE, ts |-> ts, intent |-> intent, devices |-> devices, rank |-> rank,
     rank_num |-> rank_num, ranked_devices |-> ranked_devices, time_context |-> time_context]

\* FollowUpMemory.set_state at time t
set_state(st, user_id, t, intent, devices, rank, rank_num, ranked_devices, time_context) ==
    [st EXCEPT ![user_id] =
        FollowUpState(t, intent, OrEmpty(devices), rank, rank_num, ranked_devices, time_context)]

get_if_fresh_EvictAtTtl(st, user_id, t) ==
    IF ~st[user_id].present THEN [ret |-> NoState, store |-> st]
    ELSE IF t - st[user_id].ts >= ttl
         THEN [ret |-> NoState, store |-> [st EXCEPT ![user_id] = NoState]]
    ELSE [ret |-> st[user_id], store |-> st]

\* FollowUpMemory.get_if_fresh at time t: the value returned and the store afterwards
get_if_fresh(st, user_id, t) ==
    IF ~st[user_id].present THEN [ret |-> NoState, store |-> st]
    ELSE IF t - st[user_id].ts > ttl
         THEN [ret |-> NoState, store |-> [st EXCEPT ![user_id] = NoState]]
    ELSE [ret |-> st[user_id], store |-> st]

\* FollowUpMemory.clear
clear(st, user_id) == [st EXCEPT ![user_id] = NoState]

(* The memory driven call by call (SpecMemory) *)

NoCall == [op |-> "none", user_id |-> 1, at |-> 0, pre |-> NoState, ret |-> NoState]

\* the device lists written by the calls of SpecMemory
MemDevices == {<<>>, <<"AC">>}

MemSetState ==
    /\ \E u \in Users, d \in MemDevices :
          /\ store' = set_state(store, u, now, "usage", d, "None", 0, <<>>, "today")
          /\ got' = [op |-> "set_state", user_id |-> u, at |-> now, pre |-> store[u],
                     ret |-> NoState]
    /\ UNCHANGED <<agg, now, users, objs, thr, adm, turn>>

MemGetIfFresh ==
    /\ \E u \in Users :
          LET r == get_if_fresh(store, u, now)
          IN  /\ store' = r.store
              /\ got' = [op |-> "get_if_fresh", user_id |-> u, at |-> now, pre |-> store[u],
                         ret |-> r.ret]
    /\ UNCHANGED <<agg, now, users, objs, thr, adm, turn>>

MemClear ==
    /\ \E u \in Users :
          /\ store' = clear(store, u)
          /\ got' = [op |-> "clear", user_id |-> u, at |-> now, pre |-> store[u],
                     ret |-> NoState]
    /\ UNCHANGED <<agg, now, users, objs, thr, adm, turn>>

TickMemory ==
    /\ now + TickSeconds <= MaxTicks * TickSeconds
    /\ now' = now + TickSeconds
    /\ UNCHANGED <<agg, users, objs, thr, adm, store, got, turn>>

----------------------------------------------------------------------------
(* Energy aggregation: the data of a call and its result *)

\* no telemetry, no usage rows, no call made
NoAggregation == [table |-> {}, rows |-> <<>>, call |-> "none"]

----------------------------------------------------------------------------
(* Orchestrator.decide, over the features of the latest user message *)

\* ParsedSlots with a Decision's intent
Decision(intent, time, devices, rank, rank_num, summary_request, energy_query_type) ==
    [intent |-> intent, time |-> time, devices |-> devices, rank |-> rank,
     rank_num |-> rank_num, summary_request |-> summary_request,
     energy_query_type |-> energy_query_type]

\* Decision(intent, ParsedSlots(), ...)
EmptyDecision(intent) == Decision(intent, "None", <<>>, "None", 0, FALSE, "None")

\* what the patterns of the orchestrator find in an utterance
Features ==
    [empty : BOOLEAN, smalltalk : BOOLEAN, summary : BOOLEAN, energy_term : BOOLEAN,
     phrase : BOOLEAN, time : Times \cup {"None"}, devices : DeviceLists, rk : RankPairs]

InitialQueryType_DeviceFirst(f) ==
    IF f.devices # <<>> THEN "DEVICE_USAGE"
    ELSE IF f.rk[1] # "None" \/ f.rk[2] # 0 THEN "RANKED_DEVICES"
    ELSE IF f.energy_term THEN "TOTAL_USAGE"
    ELSE "None"

\* _extract_all_slots: the initial energy_query_type
InitialQueryType(f) ==
    IF f.rk[1] # "None" \/ f.rk[2] # 0 THEN "RANKED_DEVICES"
    ELSE IF f.devices # <<>> THEN "DEVICE_USAGE"
    ELSE IF f.energy_term THEN "TOTAL_USAGE"
    ELSE "None"

Decide_EnergyBeforeSummary(f) ==
    IF f.empty THEN EmptyDecision("UNSURE")
    ELSE IF f.smalltalk THEN EmptyDecision("SMALLTALK")
    ELSE LET qt == InitialQueryType(f)
             slots(intent, t) == Decision(intent, f.time, f.devices, f.rk[1], f.rk[2], f.summary, t)
         IN  IF qt # "None" THEN slots("ENERGY", qt)
             ELSE IF f.summary THEN slots("SUMMARY", qt)
             ELSE IF f.energy_term \/ (f.phrase /\ (f.time # "None" \/ f.devices # <<>>))
                  THEN slots("ENERGY", "TOTAL_USAGE")
             ELSE slots("GENERAL", qt)

decide(f) ==
    IF f.empty THEN EmptyDecision("UNSURE")
    ELSE IF f.smalltalk THEN EmptyDecision("SMALLTALK")
    ELSE LET qt == InitialQueryType(f)
             slots(intent, t) == Decision(intent, f.time, f.devices, f.rk[1], f.rk[2], f.summary, t)
         IN  IF f.summary THEN slots("SUMMARY", qt)
             ELSE IF qt # "None" THEN slots("ENERGY", qt)
             ELSE IF f.energy_term \/ (f.phrase /\ (f.time # "None" \/ f.devices # <<>>))
                  THEN slots("ENERGY", "TOTAL_USAGE")
             ELSE slots("GENERAL", qt)

\* the confidence of the Decision decide returns, in hundredths
DecisionConfidence(f) ==
    IF f.empty THEN 0
    ELSE IF f.smalltalk THEN 95
    ELSE IF f.summary THEN 90
    ELSE IF InitialQueryType(f) # "None" THEN 95
    ELSE IF f.energy_term \/ (f.phrase /\ (f.time # "None" \/ f.devices # <<>>)) THEN 85
    ELSE 50

\* decide is called on an utterance (SpecDecide)
Decide ==
    /\ agg = NoAggregation
    /\ \E f \in Features :
          agg' = [table |-> {}, rows |-> <<>>, call |-> "decide", f |-> f,
                  result |-> decide(f), confidence |-> DecisionConfidence(f)]
    /\ UNCHANGED <<now, users, objs, thr, adm, store, got, turn>>

Bare(f) == f.time = "None" /\ f.devices = <<>> /\ f.rk = <<"None", 0>>

\* the utterances of Spec: every intent, the slots from a small choice
Utterances ==
    {f \in Features :
        /\ f.time \in {"None", "today"}
        /\ f.devices \in {<<>>, <<"AC">>}
        /\ f.rk \in {<<"None", 0>>, <<"highest", 1>>}
        /\ ~f.phrase
        /\ \/ ~f.empty /\ ~f.smalltalk /\ (f.summary => Bare(f) /\ ~f.energy_term)
           \/ f.empty # f.smalltalk /\ ~f.summary /\ ~f.energy_term /\ Bare(f)}

\* the utterances of SpecMerge: every combination of slots in an energy question,
\* and recap requests that carry a time or a device
MergeUtterances ==
    {f \in Features :
        /\ ~f.empty /\ ~f.smalltalk
        /\ \/ ~f.summary /\ decide(f).intent = "ENERGY"
           \/ f.summary /\ ~f.energy_term /\ ~f.phrase /\ f.rk = <<"None", 0>>}

----------------------------------------------------------------------------
(* AIService._handle_follow_up: the memory merge *)

HandleFollowUp_InheritDevicesAlways(decision, ctx) ==
    IF ~ctx.present \/ decision.intent # "ENERGY" THEN decision
    ELSE [decision EXCEPT
            !.time = IF @ = "None" /\ ctx.time_context # "None" THEN ctx.time_context ELSE @,
            !.devices = IF Falsy(@) /\ ctx.devices # <<>> THEN ctx.devices ELSE @]

HandleFollowUp_NeverInheritDevices(decision, ctx) ==
    IF ~ctx.present \/ decision.intent # "ENERGY" THEN decision
    ELSE [decision EXCEPT
            !.time = IF @ = "None" /\ ctx.time_context # "None" THEN ctx.time_context ELSE @,
            !.devices = IF decision.energy_query_type = "RANKED_DEVICES" /\ Falsy(@)
                        THEN NoneList ELSE @]

HandleFollowUp_InheritRank(decision, ctx) ==
    IF ~ctx.present \/ decision.intent # "ENERGY" THEN decision
    ELSE [decision EXCEPT
            !.time = IF @ = "None" /\ ctx.time_context # "None" THEN ctx.time_context ELSE @,
            !.devices = IF decision.energy_query_type = "RANKED_DEVICES"
                        THEN (IF Falsy(@) THEN NoneList ELSE @)
                        ELSE IF Falsy(@) /\ ctx.devices # <<>> THEN ctx.devices
                        ELSE @,
            !.rank = IF @ = "None" /\ decision.rank_num = 0 THEN ctx.rank ELSE @,
            !.rank_num = IF @ = 0 /\ decision.rank = "None" THEN ctx.rank_num ELSE @]

HandleFollowUp_OverwriteTime(decision, ctx) ==
    IF ~ctx.present \/ decision.intent # "ENERGY" THEN decision
    ELSE [decision EXCEPT
            !.time = IF ctx.time_context # "None" THEN ctx.time_context ELSE @,
            !.devices = IF decision.energy_query_type = "RANKED_DEVICES"
                        THEN (IF Falsy(@) THEN NoneList ELSE @)
                        ELSE IF Falsy(@) /\ ctx.devices # <<>> THEN ctx.devices
                        ELSE @]

\* ctx is what get_if_fresh returned (NoState for None)
_handle_follow_up(decision, ctx) ==
    IF ~ctx.present \/ decision.intent \notin {"ENERGY", "SUMMARY"} THEN decision
    ELSE IF decision.intent = "SUMMARY" THEN decision
    ELSE [decision EXCEPT
            !.time = IF @ = "None" /\ ctx.time_context # "None" THEN ctx.time_context ELSE @,
            !.devices = IF decision.energy_query_type = "RANKED_DEVICES"
                        THEN (IF Falsy(@) THEN NoneList ELSE @)
                        ELSE IF Falsy(@) /\ ctx.devices # <<>> THEN ctx.devices
                        ELSE @]

----------------------------------------------------------------------------
(* AIService.chat and chat_endpoint (Spec) *)

llm_max_tokens == 150    \* _handle_llm_intent: max_tokens = 150
RequestMaxTokens == {1000}          \* ChatRequest.max_tokens (1000 is its default)
ProviderTotals == {50, 400}         \* usage.total_tokens of a provider reply
ChatUsers == {1}                    \* the users whose turns are followed

Min(a, b) == IF a <= b THEN a ELSE b

\* the limiter as the service calls it from the event loop: a whole call at time t
allow_request(us, o, user_id, t, requested_tokens) ==
    LET g == _get_user_counters(us, o, user_id, _current_minute(t))
        b == AllowBody(g.objs[g.c], _current_minute(t), Max(0, requested_tokens))
    IN  [users |-> g.users, objs |-> [g.objs EXCEPT ![g.c] = b.cnt], ret |-> b.ret]

add_usage(us, o, user_id, t, actual_tokens, allocated_tokens) ==
    LET actual == Max(0, actual_tokens)
        allocated == Max(0, allocated_tokens)
        g == _get_user_counters(us, o, user_id, _current_minute(t))
    IN  IF actual = allocated THEN [users |-> us, objs |-> o]
        ELSE [users |-> g.users,
              objs |-> [g.objs EXCEPT ![g.c] =
                           AddUsageBody(g.objs[g.c], _current_minute(t), actual - allocated)]]

\* the user's counters as stored (Zero when absent)
UserCounters(us, o, user_id) == IF us[user_id] = None THEN Zero ELSE Snap(o[us[user_id]])

\* _attach_metrics_and_track, when usage.total_tokens is an int
_attach_metrics_and_track(us, o, user_id, t, allocated_tokens, total_tokens) ==
    add_usage(us, o, user_id, t, allocated_tokens, total_tokens)

\* chat_endpoint: "except Exception" also catches the HTTPException the service
\* raises, and answers 500
chat_endpoint_status(raised) ==
    IF raised = "none" THEN 200 ELSE 500

ChatExcept_Propagate(turn_rec, exc) ==
    [turn_rec EXCEPT !.pc = "endpoint", !.branch = "raised", !.raised = exc]

\* chat: "except HTTPException: raise" and "except Exception:" with the canned reply,
\* for an exception exc raised while the turn was dispatched
chat_except(turn_rec, exc) ==
    IF exc = "HTTP429"
    THEN [turn_rec EXCEPT !.pc = "endpoint", !.branch = "rate_limited", !.raised = exc]
    ELSE [turn_rec EXCEPT !.pc = "endpoint", !.branch = "service_error",
              !.reply = "completion"]

\* what the energy processor does with a call: a response with data, the response
\* for an empty result, a raised exception, None, or a value that is no
\* EnergyQueryResponse
ProcessorOutcomes == {"data", "no_data", "raises", "returns_none", "malformed"}

\* what the provider does with a call: a completion with integer usage, a raised
\* exception or a reply without choices, a completion whose usage is no dict
ProviderReplies == {"ok", "fails", "bad_usage"}

\* the turn in progress, and after it ended the record of what it did
IdleTurn ==
    [pc |-> "idle", user_id |-> 1, orig |-> EmptyDecision("UNSURE"),
     decision |-> EmptyDecision("UNSURE"), ctx |-> NoState,
     branch |-> "none", raised |-> "none", status |-> 0,
     handler |-> "none", source |-> "none", agg_devices |-> <<>>,
     reserved |-> 0, allocated |-> 0, total_tokens |-> -1,
     admitted |-> Zero, trued |-> Zero, written |-> FALSE, recap |-> "none",
     outcome |-> "none", reply |-> "none"]

\* chat, lines 73-94: empty input, decide, _handle_follow_up; U = the utterances tried
ChatBegin(U) ==
    /\ turn.pc = "idle"
    /\ \E u \in ChatUsers, f \in U :
          LET d == decide(f)
              r == get_if_fresh(store, u, now)
          IN  IF f.empty
              THEN /\ turn' = [IdleTurn EXCEPT !.pc = "endpoint", !.user_id = u,
                                   !.branch = "empty_input", !.reply = "completion"]
                   /\ store' = store
              ELSE /\ turn' = [IdleTurn EXCEPT !.pc = "dispatch", !.user_id = u, !.orig = d,
                                   !.decision = _handle_follow_up(d, r.ret), !.ctx = r.ret]
                   /\ store' = r.store
    /\ UNCHANGED <<agg, now, users, objs, thr, adm, got>>

Clarification_DefaultWindow(p) ==
    IF p.energy_query_type = "DEVICE_USAGE" /\ p.time # "None" /\ Falsy(p.devices)
    THEN "energy_clarify_device"
    ELSE IF p.energy_query_type = "RANKED_DEVICES" /\ p.time # "None"
            /\ p.rank = "None" /\ p.rank_num = 0
    THEN "energy_clarify_rank_type"
    ELSE "none"

\* the clarification _dispatch_energy_query returns, or "none"
Clarification(p) ==
    IF p.energy_query_type = "TOTAL_USAGE"
    THEN (IF p.time = "None" THEN "energy_clarify_total_time" ELSE "none")
    ELSE IF p.energy_query_type = "DEVICE_USAGE"
    THEN (IF p.time = "None" THEN "energy_clarify_device_time"
          ELSE IF Falsy(p.devices) THEN "energy_clarify_device" ELSE "none")
    ELSE IF p.energy_query_type = "RANKED_DEVICES"
    THEN (IF p.time = "None" THEN "energy_clarify_rank_time"
          ELSE IF p.rank = "None" /\ p.rank_num = 0 THEN "energy_clarify_rank_type"
          ELSE "none")
    ELSE "none"

\* _handle_ranked_devices_query: is_pure_rank_follow_up_from_memory and the index check
ServedFromMemory(p, last) ==
    /\ p.rank_num # 0
    /\ last.present
    /\ last.ranked_devices # <<>>
    /\ last.intent = "rank"
    /\ p.time = last.time_context
    /\ p.devices = last.devices
    /\ 0 <= p.rank_num - 1 /\ p.rank_num - 1 < Len(last.ranked_devices)

\* _update_energy_memory: the line appended to the user's RecapMemory
recap_line(p) ==
    IF p.rank # "None" \/ p.rank_num # 0 THEN "Looked up" ELSE "Checked energy usage"

UpdateEnergyMemory_KeepCreatedAt(st, user_id, t, p, ranked_devices) ==
    set_state(st, user_id, st[user_id].ts,
              IF p.rank # "None" \/ p.rank_num # 0 THEN "rank" ELSE "usage",
              OrEmpty(p.devices), p.rank, p.rank_num, ranked_devices, p.time)

\* _update_energy_memory: the follow-up state written at time t
_update_energy_memory(st, user_id, t, p, ranked_devices) ==
    set_state(st, user_id, t,
              IF p.rank # "None" \/ p.rank_num # 0 THEN "rank" ELSE "usage",
              OrEmpty(p.devices), p.rank, p.rank_num, ranked_devices, p.time)

\* _dispatch_energy_query for a decision with intent ENERGY
DispatchEnergy ==
    /\ turn.pc = "dispatch"
    /\ turn.decision.intent = "ENERGY"
    /\ turn.decision.energy_query_type \in {"TOTAL_USAGE", "DEVICE_USAGE", "RANKED_DEVICES"}
    /\ LET p == turn.decision
           u == turn.user_id
           ranked == p.energy_query_type = "RANKED_DEVICES"
           r == get_if_fresh(store, u, now)
           st1 == IF ranked THEN r.store ELSE store
       IN  IF Clarification(p) # "none"
           THEN /\ turn' = [turn EXCEPT !.pc = "endpoint", !.branch = Clarification(p),
                                !.reply = "completion"]
                /\ store' = store
           ELSE IF ranked /\ ServedFromMemory(p, r.ret)
           THEN /\ turn' = [turn EXCEPT !.pc = "endpoint", !.branch = "energy_dispatch",
                                !.handler = "ranked", !.source = "memory", !.written = TRUE,
                                !.recap = recap_line(p), !.reply = "energy"]
                /\ store' = _update_energy_memory(st1, u, now, p, r.ret.ranked_devices)
           ELSE \E outcome \in ProcessorOutcomes, rl \in RankedLists \ {<<>>} :
                   LET h == IF ranked THEN "ranked"
                            ELSE IF p.energy_query_type = "DEVICE_USAGE" THEN "device"
                            ELSE "total"
                       called == [turn EXCEPT !.pc = "endpoint", !.handler = h,
                                      !.source = "processor", !.outcome = outcome,
                                      !.agg_devices = OrEmpty(p.devices)]
                   IN  IF outcome \in {"raises", "malformed"}
                       THEN /\ turn' = chat_except(called, "Exception")
                            /\ store' = st1
                       ELSE IF outcome = "returns_none"
                       THEN /\ turn' = [called EXCEPT !.branch = "energy_handler_fail",
                                            !.reply = "completion"]
                            /\ store' = st1
                       ELSE /\ turn' = [called EXCEPT !.branch = "energy_dispatch",
                                            !.written = TRUE, !.recap = recap_line(p),
                                            !.reply = IF outcome = "data" THEN "energy"
                                                      ELSE "energy_error"]
                            /\ store' = _update_energy_memory(st1, u, now, p,
                                            IF ranked /\ outcome = "data" THEN rl ELSE <<>>)
    /\ UNCHANGED <<agg, now, users, objs, thr, adm, got>>

\* _handle_summary_intent
HandleSummary ==
    /\ turn.pc = "dispatch"
    /\ turn.decision.intent = "SUMMARY"
    /\ LET u == turn.user_id
           a == allow_request(users, objs, u, now, 0)
       IN  /\ users' = a.users
           /\ objs' = Collect(a.objs, a.users, thr)
           /\ IF a.ret
              THEN /\ turn' = [turn EXCEPT !.pc = "endpoint", !.branch = "summary",
                                   !.reserved = 1, !.reply = "completion",
                                   !.admitted = UserCounters(a.users, a.objs, u)]
                   /\ store' = get_if_fresh(store, u, now).store
              ELSE /\ turn' = chat_except(turn, "HTTP429")
                   /\ store' = store
    /\ UNCHANGED <<agg, now, thr, adm, got>>

\* _handle_llm_intent up to the provider call: prompt, allocation, admission
HandleLLM ==
    /\ turn.pc = "dispatch"
    /\ turn.decision.intent \in {"SMALLTALK", "GENERAL", "UNSURE"}
    /\ \E max_tokens \in RequestMaxTokens :
       LET u == turn.user_id
           allocated_tokens == Min(max_tokens, llm_max_tokens)
           a == allow_request(users, objs, u, now, allocated_tokens)
       IN  /\ store' = IF turn.decision.intent = "SMALLTALK" THEN store
                       ELSE get_if_fresh(store, u, now).store
           /\ users' = a.users
           /\ objs' = Collect(a.objs, a.users, thr)
           /\ turn' = IF a.ret
                      THEN [turn EXCEPT !.pc = "provider", !.reserved = 1,
                                !.allocated = allocated_tokens,
                                !.admitted = UserCounters(a.users, a.objs, u)]
                      ELSE chat_except(turn, "HTTP429")
    /\ UNCHANGED <<agg, now, thr, adm, got>>

\* _handle_llm_intent from the provider's answer on: _wrap_or_fallback (a failed or
\* malformed reply becomes the canned reply, whose usage.total_tokens is 0), then
\* _attach_metrics_and_track
ProviderReturns ==
    /\ turn.pc = "provider"
    /\ \E reply \in ProviderReplies, total \in ProviderTotals :
          LET u == turn.user_id
              total_tokens == IF reply = "ok" THEN total ELSE 0
              tr == _attach_metrics_and_track(users, objs, u, now, turn.allocated, total_tokens)
          IN  IF reply = "bad_usage"
              THEN /\ turn' = chat_except([turn EXCEPT !.source = reply], "Exception")
                   /\ UNCHANGED <<agg, users, objs>>
              ELSE /\ users' = tr.users
                   /\ objs' = Collect(tr.objs, tr.users, thr)
                   /\ turn' = [turn EXCEPT !.pc = "endpoint",
                                   !.branch = IF turn.decision.intent = "SMALLTALK"
                                              THEN "smalltalk" ELSE "general",
                                   !.source = reply,
                                   !.reply = IF reply = "ok" THEN "provider" ELSE "completion",
                                   !.total_tokens = total_tokens,
                                   !.trued = UserCounters(tr.users, tr.objs, u)]
    /\ UNCHANGED <<agg, now, thr, adm, store, got>>

\* chat_endpoint: the reply or the error the caller receives
ChatEndpoint ==
    /\ turn.pc = "endpoint"
    /\ turn' = [IdleTurn EXCEPT !.user_id = turn.user_id, !.branch = turn.branch,
                    !.raised = turn.raised, !.status = chat_endpoint_status(turn.raised)]
    /\ UNCHANGED <<agg, now, users, objs, thr, adm, store, got>>

\* time passes between turns and while the provider is awaited
TickChat ==
    /\ turn.pc \in {"idle", "provider"}
    /\ now + TickSeconds <= MaxTicks * TickSeconds
    /\ now' = now + TickSeconds
    /\ UNCHANGED <<agg, users, objs, thr, adm, store, got, turn>>

----------------------------------------------------------------------------
(* EnergyQueryProcessor: ranking over the rows of get_energy_usage (SpecRank) *)

MaxRows == 4                       \* rows the repository returns for one call
DeviceIds == {1, 2, 3, 4}          \* devices.id of the user's devices
RowEnergies == {100, 200}          \* total_energy_wh of a row
RankNums == {0, 1, 2, 5}           \* parsed rank_num (0 for None)

\* devices.name, joined to every row
DeviceName(id) == <<"AC", "Heater", "Fridge", "TV">>[id]

\* a row of usage["data"]
UsageRow(id, wh) == [device_id |-> id, device_name |-> DeviceName(id), total_energy_wh |-> wh]

RECURSIVE AggregatePerDevice(_, _)
\* _compute_rank_from_usage: agg, the per-device sums in order of first appearance;
\* acc is the list built so far
AggregatePerDevice(rows, acc) ==
    IF rows = <<>> THEN acc
    ELSE LET r == Head(rows)
             at == {i \in 1..Len(acc) : acc[i].device_id = r.device_id}
         IN  AggregatePerDevice(Tail(rows),
                IF at = {}
                THEN Append(acc, r)
                ELSE [i \in 1..Len(acc) |->
                        IF i \in at
                        THEN [acc[i] EXCEPT !.total_energy_wh = @ + r.total_energy_wh]
                        ELSE acc[i]])

\* the place where sorted() puts x among the already sorted elements before it:
\* behind every element that does not come strictly after it (the sort is stable)
InsertSorted(x, sorted, reverse) ==
    LET before == {i \in 1..Len(sorted) :
                      IF reverse THEN sorted[i].total_energy_wh >= x.total_energy_wh
                      ELSE sorted[i].total_energy_wh <= x.total_energy_wh}
        n == Cardinality(before)
    IN  SubSeq(sorted, 1, n) \o <<x>> \o SubSeq(sorted, n + 1, Len(sorted))

RECURSIVE SortedByEnergy(_, _, _)
\* sorted(agg.values(), key=total_energy_wh, reverse=...)
SortedByEnergy(devs, acc, reverse) ==
    IF devs = <<>> THEN acc
    ELSE SortedByEnergy(Tail(devs), InsertSorted(Head(devs), acc, reverse), reverse)

RECURSIVE SumEnergy(_)
SumEnergy(devs) ==
    IF devs = <<>> THEN 0 ELSE Head(devs).total_energy_wh + SumEnergy(Tail(devs))

\* e / total_energy * 100.0 if total_energy > 0 else 0.0, as a fraction
Percentage(e, total_energy) ==
    IF total_energy > 0 THEN [num |-> e * 100, den |-> total_energy]
    ELSE [num |-> 0, den |-> 1]

ComputeRank_FirstReturned(rows, direction) ==
    IF rows = <<>> THEN [none |-> TRUE]
    ELSE LET devs == AggregatePerDevice(rows, <<>>)
             total_energy == SumEnergy(devs)
         IN  [none |-> FALSE,
              device |-> [id |-> devs[1].device_id, name |-> devs[1].device_name,
                          total_energy_wh |-> devs[1].total_energy_wh,
                          percentage_of_total |->
                              Percentage(devs[1].total_energy_wh, total_energy)],
              comparison |-> [i \in 1..Min(3, Len(devs)) |->
                                [device_name |-> devs[i].device_name,
                                 total_energy_wh |-> devs[i].total_energy_wh,
                                 percentage |->
                                     Percentage(devs[i].total_energy_wh, total_energy)]]]

\* _compute_rank_from_usage over the rows get_energy_usage returned
_compute_rank_from_usage(rows, direction) ==
    IF rows = <<>> THEN [none |-> TRUE]
    ELSE LET sorted_devs == SortedByEnergy(AggregatePerDevice(rows, <<>>), <<>>,
                                            direction = "desc")
             best == sorted_devs[1]
             total_energy == SumEnergy(sorted_devs)
         IN  [none |-> FALSE,
              device |-> [id |-> best.device_id, name |-> best.device_name,
                          total_energy_wh |-> best.total_energy_wh,
                          percentage_of_total |->
                              Percentage(best.total_energy_wh, total_energy)],
              comparison |-> [i \in 1..Min(3, Len(sorted_devs)) |->
                                [device_name |-> sorted_devs[i].device_name,
                                 total_energy_wh |-> sorted_devs[i].total_energy_wh,
                                 percentage |->
                                     Percentage(sorted_devs[i].total_energy_wh,
                                                total_energy)]]]

\* process_with_params: the rank branch (parsed rank_num is not read); an empty
\* result calls the undefined _no_data_response, which raises AttributeError
process_with_params(rows, rank, rank_num) ==
    IF rank \in {"highest", "lowest"}
    THEN LET top == _compute_rank_from_usage(rows, IF rank = "highest" THEN "desc" ELSE "asc")
         IN  IF top.none THEN [kind |-> "raises"]
             ELSE [kind |-> "rank", position |-> 1, name |-> top.device.name,
                   wh |-> top.device.total_energy_wh, data |-> top]
    ELSE [kind |-> "usage"]

\* get_energy_usage returns one more row
RepoReturnsRow ==
    /\ agg.call = "none"
    /\ agg.table = {}
    /\ Len(agg.rows) < MaxRows
    /\ \E id \in DeviceIds, wh \in RowEnergies :
          agg' = [agg EXCEPT !.rows = Append(@, UsageRow(id, wh))]
    /\ UNCHANGED <<now, users, objs, thr, adm, store, got, turn>>

\* process_with_params is called with parsed rank and rank_num
ProcessWithParams ==
    /\ agg.call = "none"
    /\ agg.table = {}
    /\ \E rank \in {"None", "highest", "lowest"}, rank_num \in RankNums :
          agg' = [table |-> {}, rows |-> agg.rows, call |-> "process_with_params",
                  rank |-> rank, rank_num |-> rank_num,
                  result |-> process_with_params(agg.rows, rank, rank_num)]
    /\ UNCHANGED <<now, users, objs, thr, adm, store, got, turn>>

----------------------------------------------------------------------------
(* EnergyRepository and telemetry service: integration of W into Wh in SQL
   (SpecIntegrate).  A relation is the set of its rows; the rows keep their
   timestamp through every CTE, so that two rows of one device never coincide.
   power * delta_s is kept in watt-seconds and the divisions by 3600.0 and
   1000.0 are kept as denominators. *)

MaxSamples == 4                          \* rows of the telemetry table
MeterIds == {1, 2}                       \* telemetry.device_id
TimePoints == {0, 600, 3600, 4200}       \* telemetry.timestamp, in seconds
PowerReadings == {100, 200}              \* telemetry.energy_watts
WindowStarts == {0, 600}                 \* :start_time
WindowEnds == {3600, 4200}               \* :end_time

DEFAULT_MAX_GAP_SECONDS == 15 * 60
BucketSeconds == 60 * 60                 \* TimeGroup.HOUR: "1 hour"
TzOffsetSeconds == 8 * 3600              \* tz = "Asia/Singapore"

\* time_bucket(:bucket, timestamp)
time_bucket(bucket, timestamp) == timestamp - (timestamp % bucket)

\* the WHERE clause of the CTE "filtered"; end_inclusive tells "<=" from "<"
InWindow(table, start_time, end_time, end_inclusive) ==
    {t \in table : /\ t.timestamp >= start_time
                   /\ IF end_inclusive THEN t.timestamp <= end_time
                      ELSE t.timestamp < end_time}

\* the CTE "filtered": LAG(...) OVER (PARTITION BY device_id ORDER BY timestamp) is
\* taken over the rows the WHERE clause kept; prev is <<>> for NULL
filtered(table, start_time, end_time, end_inclusive) ==
    LET kept == InWindow(table, start_time, end_time, end_inclusive)
        before(t) == {s \in kept : s.device_id = t.device_id /\ s.timestamp < t.timestamp}
        lag(t) == IF before(t) = {} THEN <<>>
                  ELSE <<CHOOSE s \in before(t) :
                            \A u \in before(t) : u.timestamp <= s.timestamp>>
    IN  {[device_id |-> t.device_id, timestamp |-> t.timestamp, power_w |-> t.power_w,
          prev |-> lag(t)] : t \in kept}

\* the CTE "intervals": COALESCE(prev_w, power_w) and EXTRACT(EPOCH FROM
\* (timestamp - prev_ts)), <<>> for NULL
intervals(rows) ==
    {[device_id |-> r.device_id, timestamp |-> r.timestamp,
      power_w_for_interval |-> IF r.prev = <<>> THEN r.power_w ELSE r.prev[1].power_w,
      delta_s |-> IF r.prev = <<>> THEN <<>> ELSE <<r.timestamp - r.prev[1].timestamp>>]
     : r \in rows}

IntervalsCapped_Uncapped(rows, max_gap_seconds) ==
    {[device_id |-> r.device_id, timestamp |-> r.timestamp,
      power_w_for_interval |-> r.power_w_for_interval,
      delta_s |-> IF r.delta_s = <<>> THEN 0 ELSE Max(0, r.delta_s[1])] : r \in rows}

\* the CTE "intervals_capped": GREATEST(0, LEAST(:max_gap_seconds, COALESCE(delta_s, 0)))
intervals_capped(rows, max_gap_seconds) ==
    {[device_id |-> r.device_id, timestamp |-> r.timestamp,
      power_w_for_interval |-> r.power_w_for_interval,
      delta_s |-> Max(0, Min(max_gap_seconds, IF r.delta_s = <<>> THEN 0 ELSE r.delta_s[1]))]
     : r \in rows}

RECURSIVE SumWattSeconds(_)
\* SUM(power_w_for_interval * delta_s ...) over a group
SumWattSeconds(group) ==
    IF group = {} THEN 0
    ELSE LET r == CHOOSE r \in group : TRUE
         IN  r.power_w_for_interval * r.delta_s + SumWattSeconds(group \ {r})

RECURSIVE SumIntervalPower(_)
\* the sum AVG(power_w_for_interval) divides by COUNT(*)
SumIntervalPower(group) ==
    IF group = {} THEN 0
    ELSE LET r == CHOOSE r \in group : TRUE
         IN  r.power_w_for_interval + SumIntervalPower(group \ {r})

\* the capped intervals of one query
CappedIntervals(table, start_time, end_time, end_inclusive, max_gap_seconds) ==
    intervals_capped(intervals(filtered(table, start_time, end_time, end_inclusive)),
                     max_gap_seconds)

\* get_energy_usage: the rows of per_bucket joined to devices, one per (device, bucket)
get_energy_usage(table, start_time, end_time, bucket, max_gap_seconds) ==
    LET capped == CappedIntervals(table, start_time, end_time, TRUE, max_gap_seconds)
        group(d, b) == {r \in capped : r.device_id = d /\ time_bucket(bucket, r.timestamp) = b}
    IN  {[bucket |-> time_bucket(bucket, r.timestamp),
          device_id |-> r.device_id,
          device_name |-> DeviceName(r.device_id),
          total_energy_wh |->
              [num |-> SumWattSeconds(group(r.device_id, time_bucket(bucket, r.timestamp))),
               den |-> 3600],
          avg_power_w |->
              [num |-> SumIntervalPower(group(r.device_id, time_bucket(bucket, r.timestamp))),
               den |-> Cardinality(group(r.device_id, time_bucket(bucket, r.timestamp)))],
          data_points |-> Cardinality(group(r.device_id, time_bucket(bucket, r.timestamp)))]
         : r \in capped}

\* _rank_device: the rows of per_device joined to devices (the model has fewer
\* devices than LIMIT 3 keeps)
_rank_device(table, start_time, end_time, max_gap_seconds) ==
    LET capped == CappedIntervals(table, start_time, end_time, TRUE, max_gap_seconds)
        group(d) == {r \in capped : r.device_id = d}
    IN  {[device_id |-> r.device_id,
          device_name |-> DeviceName(r.device_id),
          total_energy_wh |-> [num |-> SumWattSeconds(group(r.device_id)), den |-> 3600],
          avg_power_w |-> [num |-> SumIntervalPower(group(r.device_id)),
                           den |-> Cardinality(group(r.device_id))],
          data_points |-> Cardinality(group(r.device_id))] : r \in capped}

\* get_device_energy_summary: the rows of per_device WHERE energy_kwh > 0
get_device_energy_summary(table, start_time, end_time) ==
    LET capped == CappedIntervals(table, start_time, end_time, FALSE, DEFAULT_MAX_GAP_SECONDS)
        group(d) == {r \in capped : r.device_id = d}
    IN  {[device_id |-> r.device_id,
          energy_kwh |-> [num |-> SumWattSeconds(group(r.device_id)), den |-> 3600 * 1000]]
         : r \in {q \in capped : SumWattSeconds(group(q.device_id)) > 0}}

\* AggregateDataPoint(timestamp, value, device_count): value is condecimal(gt=0),
\* so the constructor raises ValidationError for a value that is not positive
AggregateDataPoint(timestamp, value, device_count) ==
    [valid |-> value.num > 0, timestamp |-> timestamp, value |-> value,
     device_count |-> device_count]

\* get_aggregate_telemetry_windowed with hourly granularity in a zone offset seconds
\* east of UTC: the rows of per_bucket over all devices, then the loop that skips
\* negative energies and builds a data point of every other row; the call raises
\* when a constructor does
get_aggregate_telemetry_windowed(table, start_time, end_time, offset) ==
    LET capped == CappedIntervals(table, start_time, end_time, FALSE, DEFAULT_MAX_GAP_SECONDS)
        bucket_local(ts) == time_bucket(BucketSeconds, ts + offset)
        group(b) == {r \in capped : bucket_local(r.timestamp) = b}
        rows == {[bucket_utc |-> bucket_local(r.timestamp) - offset,
                  energy_wh |-> [num |-> SumWattSeconds(group(bucket_local(r.timestamp))),
                                 den |-> 3600],
                  device_count |->
                      Cardinality({q.device_id : q \in group(bucket_local(r.timestamp))})]
                 : r \in capped}
        points == {AggregateDataPoint(r.bucket_utc, r.energy_wh, r.device_count)
                     : r \in {q \in rows : ~(q.energy_wh.num < 0)}}
    IN  IF \E pt \in points : ~pt.valid THEN [raises |-> TRUE, out |-> {}]
        ELSE [raises |-> FALSE, out |-> points]

\* create_telemetry: a device reports one more sample, at an instant it has not
\* reported yet
Ingest ==
    /\ agg.rows = <<>>
    /\ Cardinality(agg.table) < MaxSamples
    /\ \E d \in MeterIds, ts \in TimePoints, w \in PowerReadings :
          /\ \A t \in agg.table : ~(t.device_id = d /\ t.timestamp = ts)
          /\ agg' = [table |-> agg.table \cup
                                 {[device_id |-> d, timestamp |-> ts, power_w |-> w]},
                     rows |-> <<>>, call |-> "none"]
    /\ UNCHANGED <<now, users, objs, thr, adm, store, got, turn>>

\* EnergyRepository.get_energy_usage with hourly buckets
GetEnergyUsage ==
    /\ agg.rows = <<>>
    /\ agg.table # {}
    /\ \E start_time \in WindowStarts, end_time \in WindowEnds :
          agg' = [table |-> agg.table, rows |-> <<>>, call |-> "get_energy_usage",
                  start_time |-> start_time, end_time |-> end_time,
                  result |-> get_energy_usage(agg.table, start_time, end_time,
                                              BucketSeconds, DEFAULT_MAX_GAP_SECONDS)]
    /\ UNCHANGED <<now, users, objs, thr, adm, store, got, turn>>

\* EnergyRepository._rank_device
RankDevice ==
    /\ agg.rows = <<>>
    /\ agg.table # {}
    /\ \E start_time \in WindowStarts, end_time \in WindowEnds :
          agg' = [table |-> agg.table, rows |-> <<>>, call |-> "_rank_device",
                  start_time |-> start_time, end_time |-> end_time,
                  result |-> _rank_device(agg.table, start_time, end_time,
                                          DEFAULT_MAX_GAP_SECONDS)]
    /\ UNCHANGED <<now, users, objs, thr, adm, store, got, turn>>

\* telemetry.service.get_aggregate_telemetry_windowed, range 'day' in Asia/Singapore
GetAggregateTelemetryWindowed ==
    /\ agg.rows = <<>>
    /\ agg.table # {}
    /\ \E start_time \in WindowStarts, end_time \in WindowEnds :
          agg' = [table |-> agg.table, rows |-> <<>>,
                  call |-> "get_aggregate_telemetry_windowed",
                  start_time |-> start_time, end_time |-> end_time,
                  result |-> get_aggregate_telemetry_windowed(agg.table, start_time, end_time,
                                                              TzOffsetSeconds)]
    /\ UNCHANGED <<now, users, objs, thr, adm, store, got, turn>>

\* telemetry.service.get_device_energy_summary
GetDeviceEnergySummary ==
    /\ agg.rows = <<>>
    /\ agg.table # {}
    /\ \E start_time \in WindowStarts, end_time \in WindowEnds :
          agg' = [table |-> agg.table, rows |-> <<>>, call |-> "get_device_energy_summary",
                  start_time |-> start_time, end_time |-> end_time,
                  result |-> get_device_energy_summary(agg.table, start_time, end_time)]
    /\ UNCHANGED <<now, users, objs, thr, adm, store, got, turn>>

----------------------------------------------------------------------------
(* Orchestrator._parse_time_range (SpecTime).  A datetime is its whole seconds s
   since midnight of a Monday and its microsecond us; the zone is the default
   Asia/Singapore, a fixed offset. *)

DaySeconds == 24 * 3600
UtcOffsetSeconds == 8 * 3600

\* datetime.now(self.local_tz): two weeks of days, each at midnight, one second
\* later, noon and the last second, on a whole second or one microsecond before
\* the next
NowInstants ==
    {[s |-> d * DaySeconds + sec, us |-> us] :
        d \in 7..20, sec \in {0, 1, 12 * 3600, DaySeconds - 1}, us \in {0, 999999}}

\* the first pattern of TIME_REGEX_PATTERNS that matches the text, with n and unit
\* of a relative_time match
TimePhrases ==
    {[label |-> l, n |-> 0, unit |-> "None"] :
        l \in {"None", "today", "yesterday", "this_week", "last_week", "last_7_days"}}
    \cup {[label |-> "relative_time", n |-> n, unit |-> u] :
            n \in {0, 3}, u \in {"minute", "hour", "day"}}

\* a <= b on datetimes
NotAfter(a, b) == a.s < b.s \/ (a.s = b.s /\ a.us <= b.us)

\* dt.replace(hour=0, minute=0, second=0, microsecond=0)
AtMidnight(dt) == [s |-> dt.s - (dt.s % DaySeconds), us |-> 0]

\* dt.replace(hour=23, minute=59, second=59, microsecond=999999)
AtEndOfDay(dt) == [s |-> dt.s - (dt.s % DaySeconds) + DaySeconds - 1, us |-> 999999]

\* dt - timedelta(seconds=secs)
Before(dt, secs) == [s |-> dt.s - secs, us |-> dt.us]

\* dt.isoweekday()
isoweekday(dt) == ((dt.s \div DaySeconds) % 7) + 1

\* dt.astimezone(timezone.utc), as seconds since the same origin in UTC
astimezone_utc(dt) == [s |-> dt.s - UtcOffsetSeconds, us |-> dt.us]

_to_utc_range(label, start_local, end_local, granularity) ==
    [none |-> FALSE, label |-> label, start_utc |-> astimezone_utc(start_local),
     end_utc |-> astimezone_utc(end_local), granularity |-> granularity]

ParseTimeRange_YesterdayEndsToday(phrase, now_local) ==
    IF phrase.label = "yesterday"
    THEN _to_utc_range("yesterday", AtMidnight(Before(now_local, DaySeconds)),
                       AtEndOfDay(now_local), "hour")
    ELSE IF phrase.label = "None" THEN [none |-> TRUE]
    ELSE _to_utc_range("last_7_days", Before(now_local, 7 * DaySeconds), now_local, "day")

\* _parse_time_range for the pattern that matched (this_month is left out)
_parse_time_range(phrase, now_local) ==
    IF phrase.label = "today"
    THEN _to_utc_range("today", AtMidnight(now_local), now_local, "hour")
    ELSE IF phrase.label = "yesterday"
    THEN LET yesterday == Before(now_local, DaySeconds)
         IN  _to_utc_range("yesterday", AtMidnight(yesterday), AtEndOfDay(yesterday), "hour")
    ELSE IF phrase.label = "this_week"
    THEN _to_utc_range("this_week_so_far",
                       AtMidnight(Before(now_local, (isoweekday(now_local) - 1) * DaySeconds)),
                       now_local, "day")
    ELSE IF phrase.label \in {"last_week", "last_7_days"}
    THEN _to_utc_range("last_7_days", Before(now_local, 7 * DaySeconds), now_local, "day")
    ELSE IF phrase.label = "relative_time"
    THEN LET delta == CASE phrase.unit = "minute" -> 60 * phrase.n
                        [] phrase.unit = "hour" -> 3600 * phrase.n
                        [] phrase.unit = "day" -> DaySeconds * phrase.n
         IN  _to_utc_range("last_" \o ToString(phrase.n) \o "_" \o phrase.unit \o "s",
                           Before(now_local, delta),
                           now_local,
                           IF phrase.unit \in {"minute", "hour"} THEN phrase.unit ELSE "day")
    ELSE [none |-> TRUE]

\* a time phrase is resolved at the instant now_local
ParseTimeRange ==
    /\ agg = NoAggregation
    /\ \E phrase \in TimePhrases, now_local \in NowInstants :
          agg' = [table |-> {}, rows |-> <<>>, call |-> "_parse_time_range",
                  phrase |-> phrase, now_local |-> now_local,
                  result |-> _parse_time_range(phrase, now_local)]
    /\ UNCHANGED <<now, users, objs, thr, adm, store, got, turn>>

----------------------------------------------------------------------------
(* telemetry.service._compute_local_window (SpecTime) *)

RangeKeys == {"day", "3days", "week"}              \* LogicalRange
ZoneOffsets == {0, 8 * 3600, 0 - 5 * 3600}         \* utcoffset of ZoneInfo(tz), in seconds

\* _compute_local_window at the instant now_local of a zone with the given offset
_compute_local_window(range_key, now_local, offset) ==
    LET today_start_local == AtMidnight(now_local)
        start_local == IF range_key = "3days" THEN Before(today_start_local, 3 * DaySeconds)
                       ELSE IF range_key = "week"
                       THEN Before(today_start_local, 7 * DaySeconds)
                       ELSE today_start_local
        end_local == IF range_key \in {"3days", "week"} THEN today_start_local
                     ELSE now_local
    IN  [start_utc |-> Before(start_local, offset),
         end_utc |-> Before(end_local, offset),
         granularity |-> IF range_key \in {"3days", "week"} THEN "day" ELSE "hour",
         bucket |-> IF range_key \in {"3days", "week"} THEN "1 day" ELSE "1 hour"]

\* a canonical window is computed at the instant now_local
ComputeLocalWindow ==
    /\ agg = NoAggregation
    /\ \E range_key \in RangeKeys, now_local \in NowInstants, offset \in ZoneOffsets :
          agg' = [table |-> {}, rows |-> <<>>, call |-> "_compute_local_window",
                  range_key |-> range_key, now_local |-> now_local, offset |-> offset,
                  result |-> _compute_local_window(range_key, now_local, offset)]
    /\ UNCHANGED <<now, users, objs, thr, adm, store, got, turn>>

----------------------------------------------------------------------------
(* RecapMemory (SpecRecap) *)

recap_max_lines == 4                 \* RecapMemory(max_lines=...) (a setting)
RecapLines == {"", " ", "a", " a ", "b", "c"}      \* the line handed to add_line

\* RecapMemory.__init__: self.max_lines
RecapMaxLines == Max(4, recap_max_lines)

\* str.strip on the lines above
Strip(line) == IF line \in {"", " "} THEN "" ELSE IF line = " a " THEN "a" ELSE line

\* deque(maxlen=n).append(s)
DequeAppend(q, s, n) == IF Len(q) >= n THEN Append(Tail(q), s) ELSE Append(q, s)

\* RecapMemory._store, an absent user as the empty deque setdefault would create
EmptyRecap == [u \in Users |-> <<>>]

AddLine_NoDedup(st, user_id, line) ==
    LET s == Strip(line)
    IN  IF s = "" THEN st
        ELSE [st EXCEPT ![user_id] = DequeAppend(@, s, RecapMaxLines)]

\* RecapMemory.add_line
add_line(st, user_id, line) ==
    LET q == st[user_id]
        s == Strip(line)
    IN  IF s = "" THEN st
        ELSE IF Len(q) = 0 \/ q[Len(q)] # s
        THEN [st EXCEPT ![user_id] = DequeAppend(q, s, RecapMaxLines)]
        ELSE st

\* the _store before the next call
RecapStore == IF agg.call = "add_line" THEN agg.store ELSE EmptyRecap

\* add_line is called for a user
RecapAddLine ==
    /\ agg = NoAggregation \/ agg.call = "add_line"
    /\ \E u \in Users, line \in RecapLines :
          agg' = [table |-> {}, rows |-> <<>>, call |-> "add_line", user_id |-> u,
                  line |-> line, pre |-> RecapStore,
                  store |-> add_line(RecapStore, u, line)]
    /\ UNCHANGED <<now, users, objs, thr, adm, store, got, turn>>

----------------------------------------------------------------------------
(* AIService._handle_ranked_devices_query: a ranked follow-up and the ranked list
   in the follow-up state (SpecRankMemory) *)

RankedNames == {"AC", "Heater", "Fridge"}          \* RankedDevice.name
RankedKwh == {1, 2, 3}                             \* RankedDevice.kwh

\* RankedDevice
RankedDevice(name, kwh) == [name |-> name, kwh |-> kwh]

\* the lists of two or three devices a ranked turn stores: data["all_devices_ranked"]
\* of the response, in the order of the turn's direction
StoredRankedLists(rank) ==
    {l \in UNION {[1..n -> [name : RankedNames, kwh : RankedKwh]] : n \in 2..3} :
        /\ \A i, j \in 1..Len(l) : i # j => l[i].name # l[j].name
        /\ \A i \in 1..(Len(l) - 1) : IF rank = "highest" THEN l[i].kwh >= l[i + 1].kwh
                                      ELSE l[i].kwh <= l[i + 1].kwh}

\* _handle_ranked_devices_query up to the call of the processor: the response
\* built from the stored list, or the fall back to the processor
_handle_ranked_devices_query(p, last) ==
    IF ServedFromMemory(p, last)
    THEN LET target_device == last.ranked_devices[p.rank_num]
         IN  [source |-> "memory", name |-> target_device.name, kwh |-> target_device.kwh]
    ELSE [source |-> "processor", name |-> "None", kwh |-> 0]

\* a ranked turn was answered and _update_energy_memory stored its ranked list
StoreRankedState ==
    /\ agg = NoAggregation
    /\ \E rank \in {"highest", "lowest"}, rank_num \in {1, 2},
          devices \in {<<>>, <<"AC", "Heater", "Fridge">>} :
       \E l \in StoredRankedLists(rank) :
          agg' = [table |-> {}, rows |-> <<>>, call |-> "set_state",
                  last |-> [FollowUpState(0, "rank", devices, rank, rank_num, l, "today")
                               EXCEPT !.present = TRUE]]
    /\ UNCHANGED <<now, users, objs, thr, adm, store, got, turn>>

\* the next turn is a ranked question while the state is fresh
RankedFollowUp ==
    /\ agg.call = "set_state"
    /\ \E rank \in {"highest", "lowest"}, rank_num \in {1, 2, 3, 5},
          devices \in {NoneList, <<"AC", "Heater", "Fridge">>}, time \in Times :
          LET p == Decision("ENERGY", time, devices, rank, rank_num, FALSE, "RANKED_DEVICES")
          IN  agg' = [table |-> {}, rows |-> <<>>, call |-> "_handle_ranked_devices_query",
                      last |-> agg.last, p |-> p,
                      result |-> _handle_ranked_devices_query(p, agg.last)]
    /\ UNCHANGED <<now, users, objs, thr, adm, store, got, turn>>

----------------------------------------------------------------------------
(* TogetherAIProvider._post_with_retries (SpecProvider) *)

max_retries == 2                     \* TogetherAIProvider(max_retries=...) (a setting)

\* what one client.post can do: answer with a status (a 2xx body may fail to parse
\* as JSON), or raise a timeout, a network error or another exception
HttpOutcomes ==
    {[exc |-> "none", status |-> c, json |-> TRUE] : c \in {200, 301, 400, 408, 429, 500, 599}}
    \cup {[exc |-> "none", status |-> 200, json |-> FALSE]}
    \cup {[exc |-> e, status |-> 0, json |-> FALSE] :
            e \in {"TimeoutException", "NetworkError", "Exception"}}

\* the value or the exception the call ends with
PostResult(kind, status_code) == [kind |-> kind, status_code |-> status_code]

\* the call before its first attempt
PostCall == [table |-> {}, rows |-> <<>>, call |-> "_post_with_retries", pc |-> "post",
             attempt |-> 0, log |-> <<>>, result |-> PostResult("none", 0)]

AfterPost_RetryOnceMore(c, o) ==
    LET ret(kind, code) == [c EXCEPT !.pc = "done", !.log = Append(@, o),
                                     !.result = PostResult(kind, code)]
        again == [c EXCEPT !.pc = "sleep", !.log = Append(@, o)]
    IN  IF o.exc = "none" /\ o.status >= 200 /\ o.status < 300 /\ o.json
        THEN ret("payload", o.status)
        ELSE IF c.attempt <= max_retries THEN again
        ELSE ret("error", o.status)

\* one pass of the while loop up to its return or its sleep, for the outcome o of
\* client.post
AfterPost(c, o) ==
    LET ret(kind, code) == [c EXCEPT !.pc = "done", !.log = Append(@, o),
                                     !.result = PostResult(kind, code)]
        again == [c EXCEPT !.pc = "sleep", !.log = Append(@, o)]
    IN  IF o.exc = "none"
        THEN IF o.status >= 200 /\ o.status < 300
             THEN (IF o.json THEN ret("payload", o.status) ELSE ret("error", 500))
             ELSE IF o.status \in {408, 429} \/ (o.status >= 500 /\ o.status < 600)
             THEN (IF c.attempt < max_retries THEN again ELSE ret("error", o.status))
             ELSE ret("error", o.status)
        ELSE IF o.exc \in {"TimeoutException", "NetworkError"}
        THEN (IF c.attempt < max_retries THEN again ELSE ret("error", 599))
        ELSE ret("error", 500)

\* chat_completion calls _post_with_retries
PostBegin ==
    /\ agg = NoAggregation
    /\ agg' = PostCall
    /\ UNCHANGED <<now, users, objs, thr, adm, store, got, turn>>

\* client.post ends, within the client's timeouts
PostAttempt ==
    /\ agg.call = "_post_with_retries" /\ agg.pc = "post"
    /\ \E o \in HttpOutcomes : agg' = AfterPost(agg, o)
    /\ UNCHANGED <<now, users, objs, thr, adm, store, got, turn>>

\* _sleep_with_jitter ends: attempt += 1; continue
PostSleep ==
    /\ agg.call = "_post_with_retries" /\ agg.pc = "sleep"
    /\ agg' = [agg EXCEPT !.pc = "post", !.attempt = @ + 1]
    /\ UNCHANGED <<now, users, objs, thr, adm, store, got, turn>>

----------------------------------------------------------------------------
(* ConnectionManager (SpecWebsocket) *)

ClientIds == {"c1", "c2"}
ChannelNames == {"energy_device1", "energy_device2"}
WebSockets == {"ws1", "ws2"}
NoClientId == "None"                 \* connect(websocket) without a client id

\* dict operations: d[k] = v, del d[k]
DictPut(d, k, v) == [x \in DOMAIN d \cup {k} |-> IF x = k THEN v ELSE d[x]]
DictDel(d, k) == [x \in DOMAIN d \ {k} |-> d[x]]
EmptyDict == [x \in {} |-> {}]

\* ConnectionManager(): three empty dicts
ConnectionManager ==
    [active_connections |-> EmptyDict, subscriptions |-> EmptyDict,
     client_channels |-> EmptyDict]

\* what uuid.uuid4() can give: an id the manager holds nowhere
uuid4(m) ==
    {c \in ClientIds :
        /\ c \notin DOMAIN m.active_connections
        /\ c \notin DOMAIN m.client_channels
        /\ \A ch \in DOMAIN m.subscriptions : c \notin m.subscriptions[ch]}

\* connect, after websocket.accept() returned
connect(m, websocket, client_id) ==
    [m EXCEPT !.active_connections = DictPut(@, client_id, websocket),
              !.client_channels = DictPut(@, client_id, {})]

disconnect(m, client_id) ==
    LET own == IF client_id \in DOMAIN m.client_channels
               THEN m.client_channels[client_id] ELSE {}
    IN  [active_connections |-> DictDel(m.active_connections, client_id),
         subscriptions |-> [ch \in DOMAIN m.subscriptions |->
                               IF ch \in own THEN m.subscriptions[ch] \ {client_id}
                               ELSE m.subscriptions[ch]],
         client_channels |-> DictDel(m.client_channels, client_id)]

\* subscribe: the manager afterwards and what the call ends with
subscribe(m, client_id, channel) ==
    IF client_id \notin DOMAIN m.active_connections
    THEN [m |-> m, result |-> "ValueError"]
    ELSE LET subs == DictPut(m.subscriptions, channel,
                             (IF channel \in DOMAIN m.subscriptions
                              THEN m.subscriptions[channel] ELSE {}) \cup {client_id})
         IN  IF client_id \notin DOMAIN m.client_channels
             THEN [m |-> [m EXCEPT !.subscriptions = subs], result |-> "KeyError"]
             ELSE [m |-> [m EXCEPT !.subscriptions = subs,
                                   !.client_channels[client_id] = @ \cup {channel}],
                   result |-> "True"]

unsubscribe(m, client_id, channel) ==
    [m EXCEPT !.subscriptions =
                 [ch \in DOMAIN @ |-> IF ch = channel THEN @[ch] \ {client_id} ELSE @[ch]],
              !.client_channels =
                 [c \in DOMAIN @ |-> IF c = client_id THEN @[c] \ {channel} ELSE @[c]]]

\* no broadcast under way
NoBroadcast == [channel |-> "", pending |-> {}, sending |-> ""]

\* the manager module is loaded: manager = ConnectionManager()
ManagerInit ==
    /\ agg = NoAggregation
    /\ agg' = [table |-> {}, rows |-> <<>>, call |-> "ConnectionManager",
               client_id |-> "", result |-> "", m |-> ConnectionManager,
               bcast |-> NoBroadcast]
    /\ UNCHANGED <<now, users, objs, thr, adm, store, got, turn>>

\* the manager exists
Managed == "m" \in DOMAIN agg

\* connect(websocket, client_id): websocket.accept() returns or raises
Connect ==
    /\ Managed
    /\ \E websocket \in WebSockets, given \in ClientIds \cup {NoClientId}, accepted \in BOOLEAN :
          \E client_id \in (IF given = NoClientId THEN uuid4(agg.m) ELSE {given}) :
             agg' = [agg EXCEPT !.call = "connect", !.client_id = client_id,
                                !.result = IF accepted THEN client_id ELSE "raises",
                                !.m = IF accepted THEN connect(@, websocket, client_id)
                                      ELSE @]
    /\ UNCHANGED <<now, users, objs, thr, adm, store, got, turn>>

Disconnect ==
    /\ Managed
    /\ \E client_id \in ClientIds :
          agg' = [agg EXCEPT !.call = "disconnect", !.client_id = client_id,
                             !.result = "None", !.m = disconnect(@, client_id)]
    /\ UNCHANGED <<now, users, objs, thr, adm, store, got, turn>>

Subscribe ==
    /\ Managed
    /\ \E client_id \in ClientIds, channel \in ChannelNames :
          LET r == subscribe(agg.m, client_id, channel)
          IN  agg' = [agg EXCEPT !.call = "subscribe", !.client_id = client_id,
                                 !.result = r.result, !.m = r.m]
    /\ UNCHANGED <<now, users, objs, thr, adm, store, got, turn>>

Unsubscribe ==
    /\ Managed
    /\ \E client_id \in ClientIds, channel \in ChannelNames :
          agg' = [agg EXCEPT !.call = "unsubscribe", !.client_id = client_id,
                             !.result = "True", !.m = unsubscribe(@, client_id, channel)]
    /\ UNCHANGED <<now, users, objs, thr, adm, store, got, turn>>

\* broadcast(channel, message) up to its loop: list(self.subscriptions[channel])
BroadcastBegin ==
    /\ Managed /\ agg.bcast = NoBroadcast
    /\ \E channel \in ChannelNames :
          agg' = [agg EXCEPT !.call = "broadcast", !.client_id = "", !.result = "None",
                             !.bcast = IF channel \in DOMAIN agg.m.subscriptions
                                       THEN [channel |-> channel,
                                             pending |-> agg.m.subscriptions[channel],
                                             sending |-> ""]
                                       ELSE NoBroadcast]
    /\ UNCHANGED <<now, users, objs, thr, adm, store, got, turn>>

\* the loop takes the next client of its list: if connected, send_json is awaited
BroadcastNext ==
    /\ Managed /\ agg.bcast.pending # {} /\ agg.bcast.sending = ""
    /\ \E client_id \in agg.bcast.pending :
          agg' = [agg EXCEPT !.call = "broadcast", !.client_id = client_id,
                             !.bcast.pending = @ \ {client_id},
                             !.bcast.sending =
                                 IF client_id \in DOMAIN agg.m.active_connections
                                 THEN client_id ELSE ""]
    /\ UNCHANGED <<now, users, objs, thr, adm, store, got, turn>>

\* send_json returns, or raises and the client is disconnected
BroadcastSent ==
    /\ Managed /\ agg.bcast.sending # ""
    /\ \E sent \in BOOLEAN :
          agg' = [agg EXCEPT !.call = IF sent THEN "broadcast" ELSE "disconnect",
                             !.client_id = agg.bcast.sending,
                             !.result = "None",
                             !.bcast.sending = "",
                             !.m = IF sent THEN @ ELSE disconnect(@, agg.bcast.sending)]
    /\ UNCHANGED <<now, users, objs, thr, adm, store, got, turn>>

----------------------------------------------------------------------------
(* Specifications *)

Init ==
    /\ now = 0
    /\ users = [u \in Users |-> None]
    /\ objs = [i \in ObjIds |-> Free]
    /\ thr = [t \in Threads |-> IdleThread]
    /\ adm = [u \in Users |-> Zero]
    /\ store = [u \in Users |-> NoState]
    /\ got = NoCall
    /\ turn = IdleTurn
    /\ agg = NoAggregation

NextLimiter ==
    \/ \E t \in Threads : CallAllowRequest(t)
    \/ \E t \in Threads : CallAddUsage(t)
    \/ \E t \in Threads : ReadMinute(t)
    \/ \E t \in Threads : GetUserCounters(t)
    \/ \E t \in Threads : AllowRequestBody(t)
    \/ \E t \in Threads : AddUsageLocked(t)
    \/ \E t \in Threads : Return(t)
    \/ TickLimiter

SpecLimiter == Init /\ [][NextLimiter]_vars

NextMemory == MemSetState \/ MemGetIfFresh \/ MemClear \/ TickMemory

SpecMemory == Init /\ [][NextMemory]_vars

Next ==
    \/ ChatBegin(Utterances)
    \/ DispatchEnergy
    \/ HandleSummary
    \/ HandleLLM
    \/ ProviderReturns
    \/ ChatEndpoint
    \/ TickChat

Spec == Init /\ [][Next]_vars

NextMerge ==
    \/ ChatBegin(MergeUtterances)
    \/ DispatchEnergy
    \/ HandleSummary
    \/ ChatEndpoint
    \/ TickChat

SpecMerge == Init /\ [][NextMerge]_vars

NextRank == RepoReturnsRow \/ ProcessWithParams

SpecRank == Init /\ [][NextRank]_vars

NextDecide == Decide

SpecDecide == Init /\ [][NextDecide]_vars

NextTime == ParseTimeRange \/ ComputeLocalWindow

SpecTime == Init /\ [][NextTime]_vars

NextRecap == RecapAddLine

SpecRecap == Init /\ [][NextRecap]_vars

NextRankMemory == StoreRankedState \/ RankedFollowUp

SpecRankMemory == Init /\ [][NextRankMemory]_vars

NextProvider == PostBegin \/ PostAttempt \/ PostSleep

\* every attempt and every sleep ends: the client has timeouts, the backoff is finite
SpecProvider == Init /\ [][NextProvider]_vars /\ WF_vars(NextProvider)

NextWebsocket ==
    \/ ManagerInit
    \/ Connect
    \/ Disconnect
    \/ Subscribe
    \/ Unsubscribe
    \/ BroadcastBegin
    \/ BroadcastNext
    \/ BroadcastSent

SpecWebsocket == Init /\ [][NextWebsocket]_vars

NextIntegrate ==
    \/ Ingest
    \/ GetAggregateTelemetryWindowed
    \/ GetEnergyUsage
    \/ RankDevice
    \/ GetDeviceEnergySummary

SpecIntegrate == Init /\ [][NextIntegrate]_vars

----------------------------------------------------------------------------
(* Claims *)

\* the turn has passed the memory merge
Merged == turn.pc \in {"dispatch", "endpoint"}

\* C1: a RANKED_DEVICES turn whose utterance named no device is dispatched with an
\* empty device set (the whole fleet), whatever devices the fresh follow-up state
\* holds: the merged slot is empty, the processor is called without a device
\* filter, and the follow-up state written afterwards holds no device.
C1_RankedTurnDropsStoredDevices ==
    (Merged /\ turn.orig.intent = "ENERGY"
        /\ turn.orig.energy_query_type = "RANKED_DEVICES" /\ Falsy(turn.orig.devices))
    => /\ Falsy(turn.decision.devices)
       /\ (turn.source = "processor" => turn.agg_devices = <<>>)
       /\ (turn.written => store[turn.user_id].devices = <<>>)

\* turn A resolved devices [AC], rank highest, position 1; turn B names no device,
\* position 2, and is ranked by the processor over every device
C1_Witness ==
    /\ turn.pc = "endpoint" /\ turn.source = "processor" /\ turn.handler = "ranked"
    /\ turn.ctx.present /\ turn.ctx.devices = <<"AC">>
    /\ turn.ctx.rank = "highest" /\ turn.ctx.rank_num = 1
    /\ turn.orig.devices = <<>> /\ turn.orig.rank_num = 2
    /\ turn.agg_devices = <<>>

\* C2: an ENERGY turn of type TOTAL_USAGE or DEVICE_USAGE that named no device takes
\* the device set of a fresh follow-up state that holds one; a turn that named
\* devices keeps exactly its own.
C2_UsageTurnInheritsDevices ==
    (Merged /\ turn.orig.intent = "ENERGY"
        /\ turn.orig.energy_query_type \in {"TOTAL_USAGE", "DEVICE_USAGE"})
    => /\ (Falsy(turn.orig.devices) /\ turn.ctx.present /\ turn.ctx.devices # <<>>)
             => turn.decision.devices = turn.ctx.devices
       /\ ~Falsy(turn.orig.devices) => turn.decision.devices = turn.orig.devices

C2_Witness ==
    /\ turn.pc = "endpoint" /\ turn.source = "processor" /\ turn.handler = "total"
    /\ turn.ctx.present /\ turn.ctx.devices = <<"AC">>
    /\ turn.orig.energy_query_type = "TOTAL_USAGE" /\ turn.orig.devices = <<>>
    /\ turn.agg_devices = <<"AC">>

\* C3: after the merge rank, rank_num and the query type are those the orchestrator
\* extracted from the utterance; a turn without a rank signal is not handled as a
\* ranked query, whatever rank the follow-up state holds.
C3_RankNeverInherited ==
    Merged
    => /\ turn.decision.rank = turn.orig.rank
       /\ turn.decision.rank_num = turn.orig.rank_num
       /\ turn.decision.energy_query_type = turn.orig.energy_query_type
       /\ (turn.orig.rank = "None" /\ turn.orig.rank_num = 0)
             => /\ turn.decision.energy_query_type # "RANKED_DEVICES"
                /\ turn.handler # "ranked"

C3_Witness ==
    /\ turn.pc = "endpoint" /\ turn.handler \in {"total", "device"}
    /\ turn.ctx.present /\ turn.ctx.rank = "highest" /\ turn.ctx.ranked_devices # <<>>
    /\ turn.orig.intent = "ENERGY" /\ turn.orig.rank = "None"
    /\ turn.decision.rank = "None"

\* C4: the merge only fills unset slots: a parsed time window or device set is kept,
\* the time is taken from the follow-up state only when the turn has none, a device
\* slot changes only when the turn named no device, nothing else changes, and
\* without a fresh state or with another intent than ENERGY nothing changes at all.
C4_MergeOnlyFillsUnsetSlots ==
    Merged
    => /\ turn.orig.time # "None" => turn.decision.time = turn.orig.time
       /\ ~Falsy(turn.orig.devices) => turn.decision.devices = turn.orig.devices
       /\ turn.decision.time # turn.orig.time
             => turn.orig.time = "None" /\ turn.decision.time = turn.ctx.time_context
       /\ turn.decision.devices # turn.orig.devices
             => Falsy(turn.orig.devices) /\ turn.decision.devices \in {NoneList, turn.ctx.devices}
       /\ [turn.decision EXCEPT !.time = "None", !.devices = <<>>]
             = [turn.orig EXCEPT !.time = "None", !.devices = <<>>]
       /\ (turn.orig.intent # "ENERGY" \/ ~turn.ctx.present) => turn.decision = turn.orig

C4_Witness ==
    /\ turn.pc = "endpoint" /\ turn.source = "processor"
    /\ turn.ctx.present /\ turn.ctx.time_context = "today" /\ turn.ctx.devices = <<"AC">>
    /\ turn.orig.intent = "ENERGY"
    /\ turn.orig.time = "yesterday" /\ turn.orig.devices = <<"Heater">>
    /\ turn.decision = turn.orig

\* C5: within one window the calls admitted for a user never exceed
\* requests_per_minute and the tokens reserved never exceed tokens_per_minute, for
\* any interleaving of the threads and the clock.
C5_WindowBudgetRespected ==
    \A u \in Users :
        adm[u].requests <= requests_per_minute /\ adm[u].tokens <= tokens_per_minute

\* C6: every turn that is dispatched (ENERGY, SUMMARY, SMALLTALK, GENERAL) has
\* reserved one request of the user's window budget.
C6_EveryDispatchReserves ==
    (turn.pc = "endpoint"
        /\ turn.branch \in {"energy_dispatch", "summary", "smalltalk", "general"})
    => turn.reserved = 1

Clamp(x) == IF x < 0 THEN 0 ELSE IF x > tokens_per_minute THEN tokens_per_minute ELSE x

\* C7: after a SMALLTALK/GENERAL turn that reserved A tokens and whose provider
\* reply reports total_tokens = T, the token counter of the window is the value
\* right after admission plus (T - A), clamped to [0, tokens_per_minute].
C7_TrueUpReplacesReservation ==
    (turn.pc = "endpoint" /\ turn.branch \in {"smalltalk", "general"} /\ turn.source = "ok"
        /\ turn.admitted.window_start_minute = _current_minute(now))
    => turn.trued.tokens = Clamp(turn.admitted.tokens + (turn.total_tokens - turn.allocated))

\* C8: a turn refused by the rate limiter reaches the caller as HTTP 429, distinct
\* from the 500 of an internal error and from a normal reply.
C8_RejectionIs429 ==
    (turn.pc = "idle" /\ turn.branch = "rate_limited") => turn.status = 429

\* C9: every counters object keeps 0 <= requests <= requests_per_minute and
\* 0 <= tokens <= tokens_per_minute, and an allow_request that returns False leaves
\* the counters of the current window as they were (those of the object when it is
\* of the current window, zero when the window has rolled).
C9_CountersBoundedAndRefusalKeepsThem ==
    /\ [](\A i \in ObjIds :
            /\ 0 <= objs[i].requests /\ objs[i].requests <= requests_per_minute
            /\ 0 <= objs[i].tokens /\ objs[i].tokens <= tokens_per_minute)
    /\ [][\A t \in Threads :
            (thr[t].pc = "locked_body" /\ thr[t].op = "allow_request"
                /\ thr'[t].pc = "returned" /\ thr'[t].ret = "False")
            => Snap(objs'[thr[t].c])
                 = IF objs[thr[t].c].window_start_minute = _current_minute(now)
                   THEN Snap(objs[thr[t].c])
                   ELSE [window_start_minute |-> _current_minute(now),
                         requests |-> 0, tokens |-> 0]]_vars

\* a call refused because the window's request budget is used up
C9_Witness ==
    \E t \in Threads :
        /\ thr[t].pc = "returned" /\ thr[t].op = "allow_request" /\ thr[t].ret = "False"
        /\ objs[thr[t].c].requests = requests_per_minute
        /\ objs[thr[t].c].tokens > 0

\* C10: get_if_fresh returns the stored state iff one exists and now - ts <= ttl;
\* otherwise it returns none and an expired state is removed; a returned state is
\* never older than ttl and is the one still stored.
C10_GetIfFresh ==
    got.op = "get_if_fresh"
    => /\ got.ret = IF got.pre.present /\ got.at - got.pre.ts <= ttl THEN got.pre ELSE NoState
       /\ got.ret.present => got.at - got.ret.ts <= ttl /\ store[got.user_id] = got.ret
       /\ ~got.ret.present => ~store[got.user_id].present

\* an expired state was found and removed
C10_Witness ==
    /\ got.op = "get_if_fresh" /\ got.pre.present /\ got.at - got.pre.ts > ttl
    /\ ~got.ret.present /\ ~store[got.user_id].present

C13_FaultGivesSoftEnergyShape ==
    (turn.pc = "endpoint" /\ turn.source = "processor" /\ turn.outcome = "raises")
    => turn.reply = "energy_error"

\* C14: an ENERGY turn whose merged slots have no time ends in the time
\* clarification of its query type and the processor is not called; a DEVICE_USAGE
\* query with a time and no device gets the device clarification.
C14_ClarificationRules ==
    /\ (turn.pc = "endpoint" /\ turn.decision.intent = "ENERGY" /\ turn.decision.time = "None")
       => /\ turn.branch = CASE turn.decision.energy_query_type = "TOTAL_USAGE"
                                    -> "energy_clarify_total_time"
                             [] turn.decision.energy_query_type = "DEVICE_USAGE"
                                    -> "energy_clarify_device_time"
                             [] OTHER -> "energy_clarify_rank_time"
          /\ turn.source = "none" /\ turn.handler = "none" /\ turn.outcome = "none"
          /\ turn.reply = "completion" /\ ~turn.written
    /\ \A t \in Times, d \in {<<>>, NoneList} :
          Clarification(Decision("ENERGY", t, d, "None", 0, FALSE, "DEVICE_USAGE"))
             = "energy_clarify_device"

\* a ranked turn for position 2 without a time
C14_Witness ==
    /\ turn.pc = "endpoint" /\ turn.branch = "energy_clarify_rank_time"
    /\ turn.decision.rank_num = 2 /\ turn.decision.time = "None"
    /\ turn.source = "none"

\* C15: a rank call with position k over a fleet of n >= 1 devices selects the k-th
\* device of the fleet sorted by energy (descending for highest, ascending for
\* lowest) when k <= n and the first one when k > n.
C15_KthDeviceSelected ==
    (agg.call = "process_with_params" /\ agg.rank \in {"highest", "lowest"}
        /\ agg.rank_num >= 1 /\ agg.rows # <<>>)
    => LET fleet == SortedByEnergy(AggregatePerDevice(agg.rows, <<>>), <<>>,
                                   agg.rank = "highest")
           k == IF agg.rank_num <= Len(fleet) THEN agg.rank_num ELSE 1
       IN  /\ agg.result.kind = "rank"
           /\ agg.result.wh = fleet[k].total_energy_wh

\* C16: a rank call without position reports, for highest, a device whose summed
\* energy over its rows is the maximum over all devices in the rows (for lowest the
\* minimum), with that device's own sum and its name in the device directory, in
\* whatever order the rows come.
C16_TopDeviceIsExtremum ==
    (agg.call = "process_with_params" /\ agg.rank \in {"highest", "lowest"}
        /\ agg.rank_num = 0 /\ agg.rows # <<>>)
    => LET ids == {agg.rows[i].device_id : i \in 1..Len(agg.rows)}
           Total(id) == SumEnergy(SelectSeq(agg.rows, LAMBDA r : r.device_id = id))
           top == agg.result.data.device
       IN  /\ agg.result.kind = "rank"
           /\ top.id \in ids
           /\ top.name = DeviceName(top.id) /\ agg.result.name = top.name
           /\ top.total_energy_wh = Total(top.id) /\ agg.result.wh = Total(top.id)
           /\ \A j \in ids : IF agg.rank = "highest" THEN Total(j) <= Total(top.id)
                             ELSE Total(j) >= Total(top.id)

\* three devices, the top one neither returned first nor in a single row
C16_Witness ==
    /\ agg.call = "process_with_params" /\ agg.rank = "highest" /\ agg.rank_num = 0
    /\ Len(agg.rows) = 4
    /\ Cardinality({agg.rows[i].device_id : i \in 1..Len(agg.rows)}) = 3
    /\ agg.result.kind = "rank"
    /\ agg.result.data.device.id # agg.rows[1].device_id
    /\ agg.result.wh = 300

\* C17: the percentages of the devices in the comparison payload of a ranked
\* response sum to 100 whenever their summed energy is positive.
C17_ComparisonSumsTo100 ==
    (agg.call = "process_with_params" /\ agg.result.kind = "rank"
        /\ SumEnergy(agg.result.data.comparison) > 0)
    => LET c == agg.result.data.comparison
           num(i) == IF i <= Len(c) THEN c[i].percentage.num ELSE 0
       IN  /\ \A i \in 1..Len(c) : c[i].percentage.den = c[1].percentage.den
           /\ num(1) + num(2) + num(3) = 100 * c[1].percentage.den

\* C18: for every aggregation call whose window end no sample is stamped at, and
\* every device, the reported energy is the step-hold sum over the device's samples
\* in the window in time order: each sample but the first adds the power of the
\* sample before it times the gap in seconds clamped to [0, max gap], over 3600 for
\* Wh; so one sample alone gives 0, 100 W then 200 W ten minutes later give
\* 100 * 600 / 3600 Wh, and a 60 minute gap counts 900 s.
C18_StepHoldWithGapCap ==
    (/\ agg.call \in {"get_energy_usage", "_rank_device", "get_device_energy_summary"}
     /\ \A t \in agg.table : t.timestamp # agg.end_time)
    => \A d \in MeterIds :
        LET stream == {t \in agg.table : /\ t.device_id = d
                                         /\ agg.start_time <= t.timestamp
                                         /\ t.timestamp < agg.end_time}
            gap(dt) == IF dt < 0 THEN 0 ELSE IF dt > 900 THEN 900 ELSE dt
            step(ts) ==
                LET before == {t \in stream : t.timestamp < ts}
                IN  IF before = {} \/ ~(\E t \in stream : t.timestamp = ts) THEN 0
                    ELSE LET prior == CHOOSE q \in before :
                                         \A u \in before : u.timestamp <= q.timestamp
                         IN  prior.power_w * gap(ts - prior.timestamp)
            expected == step(0) + step(600) + step(3600) + step(4200)
            mine == {r \in agg.result : r.device_id = d}
            in_bucket(b) == {r \in mine : r.bucket = b}
            wh(b) == IF in_bucket(b) = {} THEN 0
                     ELSE (CHOOSE r \in in_bucket(b) : TRUE).total_energy_wh.num
            reported ==
                IF agg.call = "get_energy_usage" THEN wh(0) + wh(3600)
                ELSE IF mine = {} THEN 0
                ELSE IF agg.call = "_rank_device"
                     THEN (CHOOSE r \in mine : TRUE).total_energy_wh.num
                     ELSE (CHOOSE r \in mine : TRUE).energy_kwh.num
        IN  /\ reported = expected
            /\ \A r \in mine : IF agg.call = "get_device_energy_summary"
                               THEN r.energy_kwh.den = 3600 * 1000
                               ELSE r.total_energy_wh.den = 3600
            /\ agg.call = "get_energy_usage"
                  => \A b \in {0, 3600} : Cardinality(in_bucket(b)) <= 1
            /\ agg.call # "get_energy_usage" => Cardinality(mine) <= 1
            /\ Cardinality(stream) = 1 => reported = 0
            /\ (\E a \in stream : /\ a.power_w = 100
                                  /\ stream = {a, [a EXCEPT !.timestamp = @ + 600,
                                                            !.power_w = 200]})
                  => reported = 100 * 600
            /\ (\E a, b \in stream : /\ stream = {a, b}
                                     /\ b.timestamp = a.timestamp + 3600)
                  => \E a \in stream : reported = a.power_w * 900

\* device 1 sampled at 0 s (100 W), 600 s (200 W) and 3600 s, hourly buckets up to
\* 4200 s: 100 * 600 Ws in the first bucket and 200 * 900 Ws in the second
C18_Witness ==
    /\ agg.call = "get_energy_usage" /\ agg.start_time = 0 /\ agg.end_time = 4200
    /\ {t.timestamp : t \in {t \in agg.table : t.device_id = 1}} = {0, 600, 3600}
    /\ [device_id |-> 1, timestamp |-> 0, power_w |-> 100] \in agg.table
    /\ [device_id |-> 1, timestamp |-> 600, power_w |-> 200] \in agg.table
    /\ \E r \in agg.result : r.device_id = 1 /\ r.bucket = 0
                             /\ r.total_energy_wh = [num |-> 60000, den |-> 3600]
    /\ \E r \in agg.result : r.device_id = 1 /\ r.bucket = 3600
                             /\ r.total_energy_wh = [num |-> 180000, den |-> 3600]

\* C19: every aggregation call counts exactly the samples with
\* window_start <= timestamp < window_end: the data points of a (device, bucket) row
\* of the bucketed usage and of a device row of the ranking are the numbers of such
\* samples, no row exists without one, and the per-device totals have no row for a
\* device with fewer than two of them.
C19_HalfOpenWindow ==
    agg.call \in {"get_energy_usage", "_rank_device", "get_device_energy_summary"}
    => \A d \in MeterIds :
        LET inside == {t \in agg.table : /\ t.device_id = d
                                         /\ agg.start_time <= t.timestamp
                                         /\ t.timestamp < agg.end_time}
            mine == {r \in agg.result : r.device_id = d}
        IN  CASE agg.call = "get_energy_usage" ->
                    /\ \A r \in mine :
                          r.data_points =
                              Cardinality({t \in inside :
                                  r.bucket <= t.timestamp
                                  /\ t.timestamp < r.bucket + 3600})
                    /\ \A t \in inside : \E r \in mine :
                          r.bucket <= t.timestamp /\ t.timestamp < r.bucket + 3600
                    /\ \A r \in mine : r.data_points > 0
              [] agg.call = "_rank_device" ->
                    /\ \A r \in mine : r.data_points = Cardinality(inside)
                    /\ (mine = {}) = (inside = {})
              [] OTHER -> Cardinality(inside) < 2 => mine = {}

\* C20: the avg_power_w of a (device, bucket) row of the bucketed usage is the sum of
\* the power readings of the samples of the device stamped in that bucket divided by
\* their number (no sample being stamped at the window end).
C20_AvgPowerIsMeanOfBucketSamples ==
    (/\ agg.call = "get_energy_usage"
     /\ \A t \in agg.table : t.timestamp # agg.end_time)
    => \A r \in agg.result :
        LET samples == {t \in agg.table : /\ t.device_id = r.device_id
                                          /\ agg.start_time <= t.timestamp
                                          /\ t.timestamp < agg.end_time
                                          /\ r.bucket <= t.timestamp
                                          /\ t.timestamp < r.bucket + 3600}
            power_sum == 100 * Cardinality({t \in samples : t.power_w = 100})
                         + 200 * Cardinality({t \in samples : t.power_w = 200})
        IN  /\ samples # {}
            /\ r.avg_power_w.den > 0
            /\ r.avg_power_w.num * Cardinality(samples) = power_sum * r.avg_power_w.den

C22_EnergyQueryTypeSet ==
    (turn.pc = "dispatch" /\ turn.orig.intent = "ENERGY")
    => /\ turn.decision.intent = "ENERGY"
       /\ turn.decision.energy_query_type = turn.orig.energy_query_type
       /\ turn.orig.energy_query_type =
             IF turn.orig.rank # "None" \/ turn.orig.rank_num # 0 THEN "RANKED_DEVICES"
             ELSE IF turn.orig.devices # <<>> THEN "DEVICE_USAGE"
             ELSE "TOTAL_USAGE"
       /\ turn.decision.energy_query_type
             \in {"TOTAL_USAGE", "DEVICE_USAGE", "RANKED_DEVICES"}

\* an utterance with both a rank signal and a device
C22_Witness ==
    /\ turn.pc = "dispatch" /\ turn.orig.intent = "ENERGY"
    /\ turn.orig.rank = "highest" /\ turn.orig.devices = <<"AC">>
    /\ turn.decision.energy_query_type = "RANKED_DEVICES"

\* C23: at every instant of resolution, a time phrase resolved to today, yesterday,
\* this_week_so_far or last_7_days gives a window with start <= end <= now, also at
\* local midnight exactly and on a Monday.
C23_WindowNotInFuture ==
    (/\ agg.call = "_parse_time_range"
     /\ ~agg.result.none
     /\ agg.result.label \in {"today", "yesterday", "this_week_so_far", "last_7_days"})
    => /\ NotAfter(agg.result.start_utc, agg.result.end_utc)
       /\ NotAfter(agg.result.end_utc,
                   [s |-> agg.now_local.s - 8 * 3600, us |-> agg.now_local.us])

\* "this week" asked at midnight exactly on a Monday: the window is one instant
C23_Witness ==
    /\ agg.call = "_parse_time_range"
    /\ agg.phrase.label = "this_week"
    /\ agg.now_local = [s |-> 14 * 24 * 3600, us |-> 0]
    /\ agg.result.label = "this_week_so_far"
    /\ agg.result.start_utc = agg.result.end_utc
    /\ agg.result.end_utc = [s |-> 14 * 24 * 3600 - 8 * 3600, us |-> 0]

\* C24: for every range key, zone and instant, also local midnight exactly,
\* _compute_local_window returns start_utc strictly before end_utc, with
\* granularity hour and bucket "1 hour" for day, and day and "1 day" for 3days and
\* week.
C24_LocalWindowNotEmpty ==
    agg.call = "_compute_local_window"
    => /\ NotAfter(agg.result.start_utc, agg.result.end_utc)
       /\ agg.result.start_utc # agg.result.end_utc
       /\ agg.range_key = "day"
             => agg.result.granularity = "hour" /\ agg.result.bucket = "1 hour"
       /\ agg.range_key \in {"3days", "week"}
             => agg.result.granularity = "day" /\ agg.result.bucket = "1 day"

\* C25: after any sequence of add_line calls every user's recap buffer has at most
\* max_lines lines, no empty line and no two equal neighbours; a call that finds the
\* buffer full and appends drops the oldest line; and a call for one user leaves
\* the other users' buffers as they were.
C25_RecapBounded ==
    agg.call = "add_line"
    => /\ \A u \in Users :
            /\ Len(agg.store[u]) <= Max(4, recap_max_lines)
            /\ \A i \in 1..Len(agg.store[u]) : agg.store[u][i] \notin {"", " "}
            /\ \A i \in 1..(Len(agg.store[u]) - 1) : agg.store[u][i] # agg.store[u][i + 1]
       /\ \A u \in Users \ {agg.user_id} : agg.store[u] = agg.pre[u]
       /\ LET old == agg.pre[agg.user_id]
              new == agg.store[agg.user_id]
          IN  \/ new = old
              \/ Len(old) < Max(4, recap_max_lines) /\ new = Append(old, new[Len(new)])
              \/ /\ Len(old) = Max(4, recap_max_lines)
                 /\ new = Append(Tail(old), new[Len(new)])

\* a line added to a full buffer while another user holds lines of their own
C25_Witness ==
    /\ agg.call = "add_line" /\ agg.user_id = 1 /\ agg.line = " a "
    /\ agg.pre[1] = <<"a", "b", "c", "b">>
    /\ agg.store[1] = <<"b", "c", "b", "a">>
    /\ agg.store[2] = <<"c">>

\* C26: an utterance that carries a time phrase and no device, rank or recap
\* phrase, sent while the follow-up state of an answered device-usage turn is fresh,
\* reaches the dispatcher as ENERGY with the new time and the devices of the state.
C26_TimeOnlyFollowUpIsEnergy ==
    (/\ turn.pc = "dispatch"
     /\ turn.ctx.present /\ turn.ctx.intent = "usage" /\ turn.ctx.devices # <<>>
     /\ turn.orig.time # "None" /\ turn.orig.devices = <<>>
     /\ turn.orig.rank = "None" /\ turn.orig.rank_num = 0
     /\ ~turn.orig.summary_request)
    => /\ turn.decision.intent = "ENERGY"
       /\ turn.decision.time = turn.orig.time
       /\ turn.decision.devices = turn.ctx.devices

C28_AggregateWindowedReturns ==
    agg.call = "get_aggregate_telemetry_windowed"
    => /\ ~agg.result.raises
       /\ \A pt \in agg.result.out : pt.value.num > 0

\* C29: a call of _post_with_retries makes at most max_retries + 1 attempts, every
\* attempt but the last ended in a timeout, a network error or a status 408, 429
\* or 5xx, and the call comes to an end, returning the payload of a 2xx answer or an
\* error value; it raises nothing.
C29_PostWithRetriesEnds ==
    /\ [](agg.call = "_post_with_retries"
            => /\ Len(agg.log) <= max_retries + 1
               /\ \A i \in 1..(Len(agg.log) - 1) :
                     \/ agg.log[i].exc \in {"TimeoutException", "NetworkError"}
                     \/ /\ agg.log[i].exc = "none"
                        /\ \/ agg.log[i].status \in {408, 429}
                           \/ agg.log[i].status >= 500 /\ agg.log[i].status < 600
               /\ agg.pc = "sleep"
                     => \/ agg.log[Len(agg.log)].exc \in {"TimeoutException", "NetworkError"}
                        \/ /\ agg.log[Len(agg.log)].exc = "none"
                           /\ agg.log[Len(agg.log)].status \in {408, 429, 500, 599}
               /\ agg.pc = "done"
                     => /\ agg.result.kind \in {"payload", "error"}
                        /\ agg.result.kind = "payload"
                              <=> /\ agg.log[Len(agg.log)].exc = "none"
                                  /\ agg.log[Len(agg.log)].status = 200
                                  /\ agg.log[Len(agg.log)].json)
    /\ <>(agg.call = "_post_with_retries" /\ agg.pc = "done")

\* the last allowed attempt times out after a 503-like answer and a network error
C29_Witness ==
    /\ agg.call = "_post_with_retries" /\ agg.pc = "done"
    /\ Len(agg.log) = max_retries + 1
    /\ agg.log[1].status = 599 /\ agg.log[2].exc = "NetworkError"
    /\ agg.log[Len(agg.log)].exc = "TimeoutException"
    /\ agg.result = [kind |-> "error", status_code |-> 599]

\* C30: in ConnectionManager a client id is in a channel's subscriber set only if
\* the client is connected and the channel is in the client's own channel set,
\* whatever calls were made before (connect with an id that is already connected
\* included), and after disconnect(c) no subscriber set contains c.
C30_SubscribersAreConnected ==
    Managed
    => /\ \A ch \in DOMAIN agg.m.subscriptions : \A c \in agg.m.subscriptions[ch] :
             /\ c \in DOMAIN agg.m.active_connections
             /\ c \in DOMAIN agg.m.client_channels
             /\ ch \in agg.m.client_channels[c]
       /\ agg.call = "disconnect"
             => \A ch \in DOMAIN agg.m.subscriptions :
                   agg.client_id \notin agg.m.subscriptions[ch]

====
